---- MODULE Spec2Model ----
(***************************************************************************)
(* A model of cyrene, a multi-version binary installer: version strings    *)
(* and their comparison (util.rs, version.rs), the version cache           *)
(* (versions_cache.rs), the lockfile (lockfile.rs), the manager            *)
(* (manager.rs), the transaction executor (transaction.rs) and the         *)
(* command handlers that build transactions (main.rs).                     *)
(***************************************************************************)
EXTENDS Integers, Sequences, FiniteSets, TLC

VARIABLES
    call,       \* the last call of a resolver or comparison operation: its arguments and result
    cache,      \* the version cache file: application -> list of version strings
    root,       \* application -> whether apps_dir/<app> exists
    dirs,       \* application -> version -> state of apps_dir/<app>/<version>
    links,      \* exe_dir: binary name -> what exe_dir/<name> is
    lockfile,   \* the default lockfile: its versions table and its loaded_lockfile pointer
    locals,     \* the local lockfiles: path -> versions table
    added,      \* the commands given to TransactionExecutor::add, in the order of the calls
    tx,         \* the TransactionExecutor: its four queues
    pc,         \* where the executor is: being built, or executed with a result; clean:
                \* whether every command handler and execute so far succeeded
    log,        \* the steps the last execute ran, in order, each with its outcome
    before      \* the disk as it was when the last execute began

vars == <<call, cache, root, dirs, links, lockfile, locals, added, tx, pc, log, before>>

----------------------------------------------------------------------------
(* Version strings.  A version string is either a semantic version         *)
(* MAJOR.MINOR.PATCH (tok = "") or an opaque token (tok # "").             *)


V(a, b, c) == [major |-> a, minor |-> b, patch |-> c, tok |-> ""]
Tok(s) == [major |-> 0, minor |-> 0, patch |-> 0, tok |-> s]

\* Option::None where a version string is optional
None == Tok("<none>")

\* semver::Version::parse(s).is_ok()
IsSemver(s) == s.tok = ""

\* Ord for semver::Version (no pre-release part in the model): lexicographic
VersionLess(a, b) ==
    \/ a.major < b.major
    \/ a.major = b.major /\ a.minor < b.minor
    \/ a.major = b.major /\ a.minor = b.minor /\ a.patch < b.patch

\* the elements of a list
Elems(l) == {l[i] : i \in 1..Len(l)}

\* the highest of a non-empty set of semantic versions
Highest(S) == CHOOSE v \in S : \A w \in S : ~VersionLess(v, w)

\* is_major_version_equal that accepts a new version of a higher minor
is_major_version_equal_upward(old_version, new_version) ==
    IF IsSemver(old_version) /\ IsSemver(new_version)
    THEN IF old_version.major = 0 \/ new_version.major = 1
         THEN old_version.major = new_version.major /\ old_version.minor <= new_version.minor
         ELSE old_version.major = new_version.major
    ELSE old_version = new_version

\* util.rs is_major_version_equal
is_major_version_equal(old_version, new_version) ==
    IF IsSemver(old_version) /\ IsSemver(new_version)
    THEN IF old_version.major = 0 \/ new_version.major = 1
         THEN old_version.major = new_version.major /\ old_version.minor = new_version.minor
         ELSE old_version.major = new_version.major
    ELSE old_version = new_version

(* Requirement texts.  The text after "@" on the command line, or a       *)
(* version string used as a range: "*", a caret requirement "^X.Y.Z", the  *)
(* text of a version string, or text that is neither a version nor a       *)
(* requirement.  NoReq is the absent requirement (Option::None).           *)
Star == [kind |-> "star", v |-> V(0, 0, 0)]
Caret(a, b, c) == [kind |-> "caret", v |-> V(a, b, c)]
Text(s) == [kind |-> "version", v |-> s]
BadReq == [kind |-> "invalid", v |-> V(0, 0, 0)]
NoReq == [kind |-> "absent", v |-> V(0, 0, 0)]

\* semver::Version::parse(t).is_ok() for a requirement text
VersionParses(t) == t.kind = "version" /\ IsSemver(t.v)

\* semver::VersionReq::parse(t).is_ok(): "X.Y.Z" parses as the caret requirement ^X.Y.Z
ReqParses(t) == t.kind \in {"star", "caret"} \/ VersionParses(t)

\* VersionReq::matches of the requirement parsed from t
Matches(t, f) ==
    IF t.kind = "star" THEN TRUE
    ELSE IF t.v.major > 0
         THEN f.major = t.v.major /\ ~VersionLess(f, t.v)
         ELSE IF t.v.minor > 0
              THEN f.major = 0 /\ f.minor = t.v.minor /\ f.patch >= t.v.patch
              ELSE f.major = 0 /\ f.minor = 0 /\ f.patch = t.v.patch

----------------------------------------------------------------------------
(* Results.                                                                *)
Ok(x) == [ok |-> TRUE, val |-> x, err |-> ""]
Err(e) == [ok |-> FALSE, val |-> None, err |-> e]

\* versions.iter().map(Version::parse).filter_map(ok): the semantic versions of a list, in its order
RECURSIVE SemverOnly(_)
SemverOnly(s) ==
    IF s = <<>> THEN <<>>
    ELSE IF IsSemver(Head(s)) THEN <<Head(s)>> \o SemverOnly(Tail(s))
         ELSE SemverOnly(Tail(s))

\* versionings.iter().find(|f| requirement.matches(f)): the index of the first match from i on (0: none)
RECURSIVE FindMatch(_, _, _)
FindMatch(s, t, i) ==
    IF i > Len(s) THEN 0
    ELSE IF Matches(t, s[i]) THEN i ELSE FindMatch(s, t, i + 1)

----------------------------------------------------------------------------
(* The version cache (versions_cache.rs): a table application -> list.     *)

\* CyreneVersionCacheManager::get_versions
get_versions(c, name) == IF name \in DOMAIN c THEN c[name] ELSE <<>>

\* update_version_cache that keeps the previous list after the new one
update_version_cache_merge(c, name, versions) ==
    [n \in DOMAIN c \cup {name} |->
        IF n = name THEN versions \o (IF name \in DOMAIN c THEN c[name] ELSE <<>>) ELSE c[n]]

\* CyreneVersionCacheManager::update_version_cache
update_version_cache(c, name, versions) ==
    [n \in DOMAIN c \cup {name} |-> IF n = name THEN versions ELSE c[n]]

(* The resolver (manager.rs).  p is what the plugin answers when its       *)
(* get_versions is called: Ok(list) or an error.  Each operation returns   *)
(* its result, the cache afterwards and whether the plugin was called.     *)
Out(r, c, consulted) == [res |-> r, cache |-> c, consulted |-> consulted]

\* CyreneManager::search_in_version
search_in_version(versions, version_range) ==
    LET versionings == SemverOnly(versions)
        i == FindMatch(versionings, version_range, 1)
    IN  IF ReqParses(version_range) /\ i > 0 THEN Ok(versionings[i]) ELSE Ok(None)

\* CyreneManager::update_versions
update_versions(c, name, p) ==
    IF p.ok THEN Out(Ok(None), update_version_cache(c, name, p.val), TRUE)
    ELSE Out(p, c, TRUE)

\* versions that returns the cached list and never asks the plugin
versions_from_cache_only(c, name, p) == Out(Ok(get_versions(c, name)), c, FALSE)

\* versions that asks the plugin whether or not the cached list is empty
versions_always_update(c, name, p) ==
    LET u == update_versions(c, name, p)
    IN  IF u.res.ok THEN Out(Ok(get_versions(u.cache, name)), u.cache, TRUE) ELSE u

\* CyreneManager::versions
versions(c, name, p) ==
    LET cached == get_versions(c, name)
    IN  IF cached = <<>>
        THEN LET u == update_versions(c, name, p)
             IN  IF u.res.ok THEN Out(Ok(get_versions(u.cache, name)), u.cache, TRUE)
                 ELSE u
        ELSE Out(Ok(cached), c, FALSE)

\* CyreneManager::get_latest_major_release
get_latest_major_release(c, name, old_version, p) ==
    LET vs == versions(c, name, p)
    IN  IF vs.res.ok THEN Out(search_in_version(vs.res.val, old_version), vs.cache, vs.consulted)
        ELSE vs

\* get_latest_version that takes the last entry of the list
get_latest_version_last(c, name, p) ==
    LET vs == versions(c, name, p)
    IN  IF ~vs.res.ok THEN vs
        ELSE IF vs.res.val = <<>>
             THEN Out(Err("AppVersionNotInCacheError"), vs.cache, vs.consulted)
             ELSE Out(Ok(vs.res.val[Len(vs.res.val)]), vs.cache, vs.consulted)

\* CyreneManager::get_latest_version
get_latest_version(c, name, p) ==
    LET vs == versions(c, name, p)
    IN  IF ~vs.res.ok THEN vs
        ELSE IF vs.res.val = <<>>
             THEN Out(Err("AppVersionNotInCacheError"), vs.cache, vs.consulted)
             ELSE Out(Ok(vs.res.val[1]), vs.cache, vs.consulted)

\* the resolution of Commands::Install without the test Version::parse(ver).is_ok()
install_version_of_always_resolved(c, name, req, p) ==
    IF req.kind # "absent"
    THEN LET r == get_latest_major_release(c, name, req, p)
         IN  IF r.res.ok /\ r.res.val = None
             THEN Out(Err("AppVersionNotFound"), r.cache, r.consulted)
             ELSE r
    ELSE get_latest_version(c, name, p)

\* main.rs, Commands::Install: the version to install for app@requirement
install_version_of(c, name, req, p) ==
    IF req.kind # "absent"
    THEN IF VersionParses(req) THEN Out(Ok(req.v), c, FALSE)
         ELSE LET r == get_latest_major_release(c, name, req, p)
              IN  IF r.res.ok /\ r.res.val = None
                  THEN Out(Err("AppVersionNotFound"), r.cache, r.consulted)
                  ELSE r
    ELSE get_latest_version(c, name, p)

----------------------------------------------------------------------------
(* The installation state on disk.                                         *)

Apps == {"x", "y"}

\* the versions the plugins can install
InstVersions == {V(2, 0, 0), V(2, 1, 0)}

\* the names in the [binaries] table of each plugin; "tool" is exposed by both
BinNames(app) == IF app = "x" THEN {"x", "tool"} ELSE {"y", "tool"}
Bins == UNION {BinNames(a) : a \in Apps}

\* exe_dir/<name> is absent, or a symlink into apps_dir/<app>/<version>
NoLink == [app |-> "", version |-> None]
LinkTo(app, version) == [app |-> app, version |-> version]

\* the local lockfiles a load can point the default lockfile to
Paths == {"/p/cyrene.toml"}
NoPath == ""

\* no resolver operation has been called
NoCall == [op |-> "none"]

NoVersions == [a \in Apps |-> None]
NoTx == [install |-> <<>>, post_install |-> <<>>, remove |-> <<>>, finish |-> <<>>]

\* nothing installed, nothing linked, an empty lockfile
FreshDiskValue ==
    [root |-> [a \in Apps |-> FALSE],
     dirs |-> [a \in Apps |-> [v \in InstVersions |-> "absent"]],
     links |-> [b \in Bins |-> NoLink],
     lockfile |-> [versions |-> NoVersions, loaded_lockfile |-> NoPath],
     locals |-> [p \in Paths |-> NoVersions]]

\* the disk is d
DiskIs(d) ==
    /\ root = d.root
    /\ dirs = d.dirs
    /\ links = d.links
    /\ lockfile = d.lockfile
    /\ locals = d.locals

FreshDisk == DiskIs(FreshDiskValue)

\* the sequences over S of length at most n
Seqs(S, n) == UNION {[1..k -> S] : k \in 0..n}

NoTransaction ==
    /\ before = [root |-> root, dirs |-> dirs, links |-> links, lockfile |-> lockfile,
                 locals |-> locals]
    /\ added = <<>>
    /\ tx = NoTx
    /\ pc = [at |-> "none", res |-> Ok(None), clean |-> TRUE]
    /\ log = <<>>

diskvars == <<root, dirs, links, lockfile, locals>>
txvars == <<added, tx, pc, log, before>>

\* the disk as one value, for the operations below
Disk == [root |-> root, dirs |-> dirs, links |-> links, lockfile |-> lockfile, locals |-> locals]

DiskBecomes(d) ==
    /\ root' = d.root
    /\ dirs' = d.dirs
    /\ links' = d.links
    /\ lockfile' = d.lockfile
    /\ locals' = d.locals

\* the result of an operation and the disk it leaves
Ret(r, d) == [res |-> r, d |-> d]

----------------------------------------------------------------------------
(* The lockfile (lockfile.rs).                                             *)

\* find_installed_version_from_lockfile that reads the default lockfile only
find_installed_version_default_only(d, name) == d.lockfile.versions[name]

\* CyreneLockfileManager::find_installed_version_from_lockfile: the entries of the
\* loaded local lockfile are inserted over those of the default lockfile
find_installed_version_from_lockfile(d, name) ==
    IF d.lockfile.loaded_lockfile # NoPath
    THEN LET new_lockfile == d.locals[d.lockfile.loaded_lockfile]
         IN  IF new_lockfile[name] # None THEN new_lockfile[name]
             ELSE d.lockfile.versions[name]
    ELSE d.lockfile.versions[name]

\* update_lockfile that writes the default lockfile whatever the pointer
update_lockfile_default_only(d, name, version) ==
    Ret(Ok(None), [d EXCEPT !.lockfile.versions[name] = version])

\* CyreneLockfileManager::update_lockfile: the table of the loaded local lockfile, or
\* else of the default one, is read, changed and written back to the same file
update_lockfile(d, name, version) ==
    IF d.lockfile.loaded_lockfile # NoPath
    THEN Ret(Ok(None), [d EXCEPT !.locals[d.lockfile.loaded_lockfile][name] = version])
    ELSE Ret(Ok(None), [d EXCEPT !.lockfile.versions[name] = version])

\* CyreneLockfileManager::use_default_lockfile
use_default_lockfile(d) == Ret(Ok(None), [d EXCEPT !.lockfile.loaded_lockfile = NoPath])

\* a path at which there is no file: fs::canonicalize fails
MissingPath == "/q/cyrene.toml"

\* use_local_lockfile that also copies the entries of the local lockfile into the default one
use_local_lockfile_merging(d, loaded_lockfile) ==
    IF loaded_lockfile \notin Paths THEN Ret(Err("LockfileLocalRead"), d)
    ELSE Ret(Ok(None),
             [d EXCEPT !.lockfile.loaded_lockfile = loaded_lockfile,
                       !.lockfile.versions =
                            [a \in Apps |-> IF d.locals[loaded_lockfile][a] # None
                                            THEN d.locals[loaded_lockfile][a] ELSE @[a]]])

\* CyreneLockfileManager::use_local_lockfile
use_local_lockfile(d, loaded_lockfile) ==
    IF loaded_lockfile \notin Paths THEN Ret(Err("LockfileLocalRead"), d)
    ELSE Ret(Ok(None), [d EXCEPT !.lockfile.loaded_lockfile = loaded_lockfile])

----------------------------------------------------------------------------
(* The manager's operations on the installation (manager.rs).              *)

\* std::env::current_exe(), as a name in exe_dir: no plugin exposes it
CurrentExe == "cyrene"

\* the orders in which plugin.binaries(version), a HashMap, yields the names
RECURSIVE Perms(_)
Perms(S) ==
    IF S = {} THEN {<<>>}
    ELSE UNION {{<<b>> \o q : q \in Perms(S \ {b})} : b \in S}

BinOrders == {o \in [Apps -> UNION {Perms(BinNames(a)) : a \in Apps}] :
                \A a \in Apps : o[a] \in Perms(BinNames(a))}

\* CyreneManager::package_exists: fs::exists(installation_path)
package_exists(d, name, version) == d.dirs[name][version] # "absent"

\* fs::metadata(exe_path).is_ok() and fs::exists(exe_path): both follow the symlink, so
\* they hold when the link is there and the file it points to is there
LinkTargetExists(d, b) ==
    /\ d.links[b] # NoLink
    /\ d.dirs[d.links[b].app][d.links[b].version] = "full"

\* the loop of CyreneManager::link_plugin_binaries over the binaries, where current_exe
\* is the name in exe_dir at which the running executable is
RECURSIVE LinkLoopAt(_, _, _, _, _, _, _)
LinkLoopAt(d, name, version, overwrite, bins, not_overwritten_exists, current_exe) ==
    IF bins = <<>> THEN Ret(Ok(not_overwritten_exists), d)
    ELSE LET b == Head(bins)
             linked == [d EXCEPT !.links[b] = LinkTo(name, version)]
         IN  IF b = current_exe THEN Ret(Err("AppLinkingToItselfError"), d)
             ELSE IF LinkTargetExists(d, b)
                  THEN IF overwrite
                       THEN LinkLoopAt(linked, name, version, overwrite, Tail(bins),
                                       not_overwritten_exists, current_exe)
                       ELSE LinkLoopAt(d, name, version, overwrite, Tail(bins), TRUE,
                                       current_exe)
                  ELSE IF d.links[b] # NoLink
                       \* symlink_file on a path that holds a dangling link
                       THEN Ret(Err("AlreadyExists"), d)
                       ELSE LinkLoopAt(linked, name, version, overwrite, Tail(bins),
                                       not_overwritten_exists, current_exe)

\* the loop when the running executable is at CurrentExe
LinkLoop(d, name, version, overwrite, bins, not_overwritten_exists) ==
    LinkLoopAt(d, name, version, overwrite, bins, not_overwritten_exists, CurrentExe)

\* CyreneManager::link_plugin_binaries with the running executable at current_exe
link_plugin_binaries(d, name, version, overwrite, bins, current_exe) ==
    IF ~package_exists(d, name, version) THEN Ret(Err("AppVersionNotInstalledError"), d)
    ELSE LinkLoopAt(d, name, version, overwrite, bins, FALSE, current_exe)

\* link_binaries without the test of the installation directory
link_binaries_unchecked(d, name, version, overwrite, order) ==
    LinkLoop(d, name, version, overwrite, order[name], FALSE)

\* CyreneManager::link_binaries and link_plugin_binaries
link_binaries(d, name, version, overwrite, order) ==
    IF ~package_exists(d, name, version) THEN Ret(Err("AppVersionNotInstalledError"), d)
    ELSE LinkLoop(d, name, version, overwrite, order[name], FALSE)

\* the loop of CyreneManager::unlink_plugin_binaries over the binaries
RECURSIVE UnlinkLoop(_, _)
UnlinkLoop(d, bins) ==
    IF bins = <<>> THEN Ret(Ok(None), d)
    ELSE LET b == Head(bins)
         IN  IF LinkTargetExists(d, b)
             THEN UnlinkLoop([d EXCEPT !.links[b] = NoLink], Tail(bins))
             ELSE UnlinkLoop(d, Tail(bins))

\* CyreneManager::unlink_plugin_binaries
unlink_plugin_binaries(d, name, version, order) ==
    IF ~package_exists(d, name, version) THEN Ret(Err("AppVersionNotInstalledError"), d)
    ELSE UnlinkLoop(d, order[name])

\* CyreneManager::unlink_binaries
unlink_binaries(d, name, order) ==
    LET version == find_installed_version_from_lockfile(d, name)
    IN  IF version = None THEN Ret(Err("AppNotInLockfileError"), d)
        ELSE unlink_plugin_binaries(d, name, version, order)

\* CyreneManager::install_specific_version: the directory is created, then the plugin
\* installs into it; plugin_ok is whether the plugin's install succeeds
install_specific_version(d, name, required_version, plugin_ok) ==
    LET now == d.dirs[name][required_version]
        created == [d EXCEPT !.root[name] = TRUE,
                             !.dirs[name][required_version] =
                                 IF now = "absent" THEN "partial" ELSE now]
    IN  IF plugin_ok THEN Ret(Ok(None), [created EXCEPT !.dirs[name][required_version] = "full"])
        ELSE Ret(Err("InstallError"), created)

\* CyreneApp::post_install: set_exec on files of the installation
post_install(d, name, version, plugin_ok) ==
    IF plugin_ok THEN Ret(Ok(None), d) ELSE Ret(Err("PostInstallError"), d)

\* a.sort_by(|a, b| b.cmp(&a)): the versions of a set, highest first
RECURSIVE SortDescending(_)
SortDescending(S) ==
    IF S = {} THEN <<>>
    ELSE LET m == Highest(S) IN <<m>> \o SortDescending(S \ {m})

\* CyreneManager::find_installed_major_release
find_installed_major_release(d, name, version) ==
    IF ~d.root[name] THEN None
    ELSE LET a == SortDescending({v \in InstVersions : package_exists(d, name, v)})
         IN  search_in_version(a, version).val

\* CyreneManager::uninstall
uninstall(d, name, version, order) ==
    IF ~package_exists(d, name, version) THEN Ret(Err("AppVersionNotInstalledError"), d)
    ELSE
    LET current_version == find_installed_version_from_lockfile(d, name)
        uninstalled_is_linked_version == current_version = version
        u == IF uninstalled_is_linked_version THEN unlink_binaries(d, name, order)
             ELSE Ret(Ok(None), d)
        removed == [u.d EXCEPT !.dirs[name][version] = "absent"]
        get_release == find_installed_major_release(removed, name, Star)
        l == link_binaries(removed, name, get_release, TRUE, order)
    IN  IF current_version = None THEN Ret(Err("AppNotInLockfileError"), d)
        ELSE IF ~u.res.ok THEN u
        ELSE IF ~uninstalled_is_linked_version THEN Ret(Ok(None), removed)
        ELSE IF get_release # None
             THEN IF l.res.ok THEN update_lockfile(l.d, name, get_release) ELSE l
             ELSE update_lockfile([removed EXCEPT !.root[name] = FALSE], name, None)

\* CyreneManager::uninstall_all
uninstall_all(d, name, order) ==
    LET u == unlink_binaries(d, name, order)
        l == update_lockfile(u.d, name, None)
    IN  IF ~d.root[name] THEN Ret(Err("AppNotInstalledError"), d)
        ELSE IF ~u.res.ok THEN u
        ELSE Ret(Ok(None), [l.d EXCEPT !.root[name] = FALSE,
                                       !.dirs[name] = [v \in InstVersions |-> "absent"]])

\* the applications in the order of a BTreeMap<String, String>: by name
AppOrder == <<"x", "y">>

\* the entries of a table as items (name, version), by name
RECURSIVE ItemsFrom(_, _)
ItemsFrom(table, i) ==
    IF i > Len(AppOrder) THEN <<>>
    ELSE (IF table[AppOrder[i]] # None
          THEN <<[name |-> AppOrder[i], version |-> table[AppOrder[i]]]>> ELSE <<>>)
         \o ItemsFrom(table, i + 1)

\* CyreneLockfileManager::load_version_map_from_current_lockfile: the table of the local
\* lockfile when the pointer is set, else of the default one
load_version_map_from_current_lockfile(d) ==
    IF d.lockfile.loaded_lockfile # NoPath THEN d.locals[d.lockfile.loaded_lockfile]
    ELSE d.lockfile.versions

\* CyreneManager::verify_version_exists; p is the answer of the plugin of name
verify_version_exists(c, name, version, p) ==
    LET o == versions(c, name, p)
    IN  IF o.res.ok THEN Out(Ok(version \in Elems(o.res.val)), o.cache, o.consulted) ELSE o

\* lockfile_items.iter().find(..) of load_lockfile: the first item whose version is not in
\* the list of its application, or whose list cannot be had; p gives the answer of each plugin
RECURSIVE FindNonexistent(_, _, _)
FindNonexistent(c, items, p) ==
    IF items = <<>> THEN [found |-> FALSE, cache |-> c]
    ELSE LET o == verify_version_exists(c, Head(items).name, Head(items).version,
                                        p[Head(items).name])
         IN  IF o.res.ok /\ o.res.val THEN FindNonexistent(o.cache, Tail(items), p)
             ELSE [found |-> TRUE, cache |-> o.cache]

\* the loop of load_lockfile over the items: install what is missing, then link;
\* plugin_ok[name] is whether the install of the plugin of name succeeds
RECURSIVE LoadLoop(_, _, _, _)
LoadLoop(d, items, plugin_ok, order) ==
    IF items = <<>> THEN Ret(Ok(None), d)
    ELSE LET item == Head(items)
             i == IF ~package_exists(d, item.name, item.version)
                  THEN install_specific_version(d, item.name, item.version, plugin_ok[item.name])
                  ELSE Ret(Ok(None), d)
             l == link_binaries(i.d, item.name, item.version, TRUE, order)
         IN  IF ~i.res.ok THEN i
             ELSE IF ~l.res.ok THEN l
             ELSE LoadLoop(l.d, Tail(items), plugin_ok, order)

\* the result of load_lockfile: the disk and the cache it leaves
Loaded(r, c) == [res |-> r.res, d |-> r.d, cache |-> c]

\* load_lockfile that verifies each item when its turn to be installed comes
load_lockfile_verifying_late(d, c, loaded_lockfile, p, plugin_ok, order) ==
    LET u == IF loaded_lockfile # NoPath THEN use_local_lockfile(d, loaded_lockfile)
             ELSE use_default_lockfile(d)
        lockfile_items == ItemsFrom(load_version_map_from_current_lockfile(u.d), 1)
        first == IF lockfile_items = <<>> THEN <<>> ELSE <<Head(lockfile_items)>>
        rest == IF lockfile_items = <<>> THEN <<>> ELSE Tail(lockfile_items)
        f == FindNonexistent(c, first, p)
        g == FindNonexistent(f.cache, lockfile_items, p)
        done == LoadLoop(u.d, first, plugin_ok, order)
    IN  IF ~u.res.ok THEN Loaded(u, c)
        ELSE IF f.found THEN Loaded(Ret(Err("LockfileAppVersionError"), u.d), f.cache)
        ELSE IF ~done.res.ok THEN Loaded(done, f.cache)
        ELSE IF g.found THEN Loaded(Ret(Err("LockfileAppVersionError"), done.d), g.cache)
        ELSE Loaded(LoadLoop(done.d, rest, plugin_ok, order), g.cache)

\* CyreneManager::load_lockfile
load_lockfile(d, c, loaded_lockfile, p, plugin_ok, order) ==
    LET u == IF loaded_lockfile # NoPath THEN use_local_lockfile(d, loaded_lockfile)
             ELSE use_default_lockfile(d)
        lockfile_items == ItemsFrom(load_version_map_from_current_lockfile(u.d), 1)
        f == FindNonexistent(c, lockfile_items, p)
    IN  IF ~u.res.ok THEN Loaded(u, c)
        ELSE IF f.found THEN Loaded(Ret(Err("LockfileAppVersionError"), u.d), f.cache)
        ELSE Loaded(LoadLoop(u.d, lockfile_items, plugin_ok, order), f.cache)

----------------------------------------------------------------------------
(* The transaction executor (transaction.rs).                              *)

\* TransactionCommands
Install(app, version) == [type |-> "Install", app |-> app, version |-> version, overwrite |-> FALSE]
Remove(app, version) == [type |-> "Remove", app |-> app, version |-> version, overwrite |-> FALSE]
RemoveAll(app) == [type |-> "RemoveAll", app |-> app, version |-> None, overwrite |-> FALSE]
LockfileUpdate(app, version) ==
    [type |-> "LockfileUpdate", app |-> app, version |-> version, overwrite |-> FALSE]
Link(app, version, overwrite) ==
    [type |-> "Link", app |-> app, version |-> version, overwrite |-> overwrite]
Unlink(app) == [type |-> "Unlink", app |-> app, version |-> None, overwrite |-> FALSE]

\* add with the finish commands pushed at the front of their queue
add_finish_at_front(t, cmd) ==
    CASE cmd.type = "Install" ->
            [t EXCEPT !.install = Append(@, cmd), !.post_install = Append(@, cmd)]
      [] cmd.type \in {"Remove", "RemoveAll"} -> [t EXCEPT !.remove = Append(@, cmd)]
      [] OTHER -> [t EXCEPT !.finish = <<cmd>> \o @]

\* add with the remove commands pushed at the front of their queue
add_remove_at_front(t, cmd) ==
    CASE cmd.type = "Install" ->
            [t EXCEPT !.install = Append(@, cmd), !.post_install = Append(@, cmd)]
      [] cmd.type \in {"Remove", "RemoveAll"} -> [t EXCEPT !.remove = <<cmd>> \o @]
      [] OTHER -> [t EXCEPT !.finish = Append(@, cmd)]

\* TransactionExecutor::add
add(t, cmd) ==
    CASE cmd.type = "Install" ->
            [t EXCEPT !.install = Append(@, cmd), !.post_install = Append(@, cmd)]
      [] cmd.type \in {"Remove", "RemoveAll"} -> [t EXCEPT !.remove = Append(@, cmd)]
      [] OTHER -> [t EXCEPT !.finish = Append(@, cmd)]

\* add called for each command of a list, in its order
RECURSIVE AddAll(_, _)
AddAll(t, cmds) == IF cmds = <<>> THEN t ELSE AddAll(add(t, Head(cmds)), Tail(cmds))

\* a step of execute: a queued command in the phase that runs it
StepOf(phase, cmd) == [phase |-> phase, cmd |-> cmd]

StepsOf(phase, q) == [i \in 1..Len(q) |-> StepOf(phase, q[i])]

\* the steps of execute with the finish loop before the remove loop
Steps_finish_before_remove(t) ==
    StepsOf("install", t.install) \o StepsOf("post_install", t.post_install)
        \o StepsOf("finish", t.finish) \o StepsOf("remove", t.remove)

\* the steps of execute with the remove loop before the install loops
Steps_remove_before_install(t) ==
    StepsOf("remove", t.remove) \o StepsOf("install", t.install)
        \o StepsOf("post_install", t.post_install) \o StepsOf("finish", t.finish)

\* the steps of TransactionExecutor::execute, in the order of its four loops
Steps(t) ==
    StepsOf("install", t.install) \o StepsOf("post_install", t.post_install)
        \o StepsOf("remove", t.remove) \o StepsOf("finish", t.finish)

(* What the environment decides during one execute: the step at which the  *)
(* plugin fails, if any (fail = 0: none), and the orders of the binaries.  *)
Env(fail, order) == [fail |-> fail, order |-> order]

\* the body of one iteration of the loops of execute; i is the number of the step
RunStep(d, s, i, env) ==
    CASE s.phase = "install" ->
            install_specific_version(d, s.cmd.app, s.cmd.version, env.fail # i)
      [] s.phase = "post_install" -> post_install(d, s.cmd.app, s.cmd.version, env.fail # i)
      [] s.phase = "remove" /\ s.cmd.type = "Remove" ->
            uninstall(d, s.cmd.app, s.cmd.version, env.order)
      [] s.phase = "remove" /\ s.cmd.type = "RemoveAll" -> uninstall_all(d, s.cmd.app, env.order)
      [] s.phase = "finish" /\ s.cmd.type = "LockfileUpdate" ->
            update_lockfile(d, s.cmd.app, s.cmd.version)
      [] s.phase = "finish" /\ s.cmd.type = "Link" ->
            link_binaries(d, s.cmd.app, s.cmd.version, s.cmd.overwrite, env.order)
      [] s.phase = "finish" /\ s.cmd.type = "Unlink" -> unlink_binaries(d, s.cmd.app, env.order)

\* a step that ran, with its outcome
Ran(s, r) ==
    [phase |-> s.phase, cmd |-> s.cmd, ok |-> r.res.ok, val |-> r.res.val, err |-> r.res.err]

\* the loops of execute from step i on: the first error is returned (the ? operator)
RECURSIVE RunFrom(_, _, _, _, _)
RunFrom(d, steps, i, env, ran) ==
    IF i > Len(steps) THEN [res |-> Ok(TRUE), d |-> d, log |-> ran]
    ELSE LET r == RunStep(d, steps[i], i, env)
         IN  IF r.res.ok THEN RunFrom(r.d, steps, i + 1, env, Append(ran, Ran(steps[i], r)))
             ELSE [res |-> r.res, d |-> r.d, log |-> Append(ran, Ran(steps[i], r))]

\* execute that puts the disk back as it was when a command fails
execute_with_rollback(d, t, env) ==
    LET r == RunFrom(d, Steps(t), 1, env, <<>>)
    IN  IF r.res.ok THEN r ELSE [r EXCEPT !.d = d]

\* TransactionExecutor::execute
execute(d, t, env) == RunFrom(d, Steps(t), 1, env, <<>>)

\* the disk after a transaction of the given commands in which nothing fails
DiskAfter(d, cmds, order) == execute(d, AddAll(NoTx, cmds), Env(0, order)).d

----------------------------------------------------------------------------
(* Transactions of any commands, added in any order.  The executor is      *)
(* built with add and then executed once.                                  *)

MaxQueue == 4

Old == V(2, 0, 0)
New == V(2, 1, 0)

\* the commands added: an upgrade of x from Old to New and its parts, and an install of y
TxCommands ==
    {Install("x", New), Install("y", Old), Remove("x", Old), RemoveAll("x"),
     LockfileUpdate("x", New), Link("x", New, TRUE), Unlink("x")}

\* one order of the binaries, for the disks the transactions start from
SomeOrder == CHOOSE o \in BinOrders : TRUE

\* x installed at Old, linked and recorded in the lockfile
DiskWithOld ==
    DiskAfter(FreshDiskValue,
              <<Install("x", Old), LockfileUpdate("x", Old), Link("x", Old, FALSE)>>, SomeOrder)

\* the plugin can fail at one of the first MaxFailAt steps that call it
MaxFailAt == 2

\* the failures of the plugin during one execute: none (0), or at a step that installs
\* or post-installs
FailPoints(t) == {0} \cup {i \in 1..MaxFailAt : i <= Len(t.install) + Len(t.post_install)}

InitTx ==
    /\ call = NoCall
    /\ cache = <<>>
    /\ \E d \in {FreshDiskValue, DiskWithOld} : DiskIs(d)
    /\ NoTransaction

\* TransactionExecutor::add
Add(cmd) ==
    /\ pc.at \in {"none", "building"}
    /\ Len(added) < MaxQueue
    /\ added' = Append(added, cmd)
    /\ tx' = add(tx, cmd)
    /\ pc' = [pc EXCEPT !.at = "building"]
    /\ UNCHANGED <<call, cache, diskvars, before, log>>

\* TransactionExecutor::execute
Execute(env) ==
    /\ pc.at = "building"
    /\ env.fail \in FailPoints(tx)
    /\ \E r \in {execute(Disk, tx, env)} :
           /\ DiskBecomes(r.d)
           /\ pc' = [at |-> "executed", res |-> r.res, clean |-> pc.clean /\ r.res.ok]
           /\ log' = r.log
    /\ before' = Disk
    /\ UNCHANGED <<call, cache, added, tx>>

NextTx ==
    \/ \E cmd \in TxCommands : Add(cmd)
    \/ \E fail \in 0..MaxFailAt, order \in BinOrders : Execute(Env(fail, order))

SpecTx == InitTx /\ [][NextTx]_vars

\* the place of a step in the order of execute: 1 installs, 2 post-installs,
\* 3 removes, 4 lockfile updates, links and unlinks
Rank(s) ==
    CASE s.phase = "install" /\ s.cmd.type = "Install" -> 1
      [] s.phase = "post_install" /\ s.cmd.type = "Install" -> 2
      [] s.cmd.type \in {"Remove", "RemoveAll"} -> 3
      [] s.cmd.type \in {"LockfileUpdate", "Link", "Unlink"} -> 4

Count(q, Test(_)) == Cardinality({i \in 1..Len(q) : Test(q[i])})

IsInstall(c) == c.type = "Install"

\* C1: in every execute the steps run in the order installs, post-installs, removes
\* (Remove, RemoveAll), then LockfileUpdate, Link and Unlink, and when execute succeeds
\* every command added has run, an Install twice (install and post-install).
C1_PhaseOrder ==
    pc.at = "executed" =>
        /\ \A i, j \in 1..Len(log) : i < j => Rank(log[i]) <= Rank(log[j])
        /\ pc.res.ok => Len(log) = Len(added) + Count(added, IsInstall)

\* a successful execute with steps of the four phases whose commands were added in another
\* order: a finish command first and an Install last
C1_Witness ==
    /\ pc.at = "executed" /\ pc.res.ok
    /\ {Rank(log[i]) : i \in 1..Len(log)} = {1, 2, 3, 4}
    /\ added[1].type \in {"LockfileUpdate", "Link", "Unlink"}
    /\ added[Len(added)].type = "Install"

\* the upgrade of x from Old to New, as the four commands of the claim
UpgradeQueue == <<Link("x", New, TRUE), Install("x", New), Remove("x", Old), LockfileUpdate("x", New)>>

IsPermutation(q, r) ==
    /\ Len(q) = Len(r)
    /\ \A c \in Elems(r) : Count(q, LAMBDA e : e = c) = Count(r, LAMBDA e : e = c)

\* the position in the log of the step of a phase that runs a command (0: it did not run)
At(phase, cmd) ==
    LET S == {i \in 1..Len(log) : log[i].phase = phase /\ log[i].cmd = cmd}
    IN  IF S = {} THEN 0 ELSE CHOOSE i \in S : TRUE

\* the position of a command in the order of the calls of add
AddedAt(cmd) == CHOOSE i \in 1..Len(added) : added[i] = cmd

\* C2, as stated: for every permutation of the upgrade queue a successful execute installs
\* New, then links, then updates the lockfile, then removes Old.
C2_LinkBeforeRemove ==
    (pc.at = "executed" /\ pc.res.ok /\ IsPermutation(added, UpgradeQueue)) =>
        /\ At("install", Install("x", New)) < At("finish", Link("x", New, TRUE))
        /\ At("finish", Link("x", New, TRUE)) < At("finish", LockfileUpdate("x", New))
        /\ At("finish", LockfileUpdate("x", New)) < At("remove", Remove("x", Old))

\* C2, amended: for every permutation of the upgrade queue a successful execute installs
\* New, post-installs it, then removes Old, and then links and updates the lockfile in the
\* order in which these two commands were added.
C2_RemoveBeforeFinish ==
    (pc.at = "executed" /\ pc.res.ok /\ IsPermutation(added, UpgradeQueue)) =>
        /\ Len(log) = 5
        /\ At("install", Install("x", New)) = 1
        /\ At("post_install", Install("x", New)) = 2
        /\ At("remove", Remove("x", Old)) = 3
        /\ At("finish", Link("x", New, TRUE)) < At("finish", LockfileUpdate("x", New))
            <=> AddedAt(Link("x", New, TRUE)) < AddedAt(LockfileUpdate("x", New))

\* the upgrade queue added with the lockfile update before the link, executed with success
C2_Witness ==
    /\ pc.at = "executed" /\ pc.res.ok
    /\ IsPermutation(added, UpgradeQueue)
    /\ AddedAt(LockfileUpdate("x", New)) < AddedAt(Link("x", New, TRUE))
    /\ At("finish", LockfileUpdate("x", New)) = 4
    /\ dirs["x"][Old] = "absent" /\ dirs["x"][New] = "full"

\* what the environment can decide during one execute
Envs == {Env(fail, order) : fail \in 0..MaxFailAt, order \in BinOrders}

\* the disk after the first n steps have run one after the other, from disk d
RECURSIVE Replay(_, _, _, _)
Replay(d, steps, n, env) ==
    IF n = 0 THEN d ELSE RunStep(Replay(d, steps, n - 1, env), steps[n], n, env).d

\* C3: when a command fails, execute returns the error of that command, the command is
\* the last one that ran, the commands before it are the steps of the transaction up to it
\* and all succeeded, and the disk holds what these steps and the failing one did to the
\* disk execute began with: nothing is undone.
C3_FailStops ==
    (pc.at = "executed" /\ ~pc.res.ok) =>
        /\ Len(log) \in 1..Len(Steps(tx))
        /\ \A i \in 1..Len(log) :
            /\ log[i].phase = Steps(tx)[i].phase /\ log[i].cmd = Steps(tx)[i].cmd
            /\ log[i].ok <=> i < Len(log)
        /\ log[Len(log)].err = pc.res.err
        /\ \E env \in Envs : Disk = Replay(before, Steps(tx), Len(log), env)

\* an execute that fails after a step changed the disk and before the last step
C3_Witness ==
    /\ pc.at = "executed" /\ ~pc.res.ok
    /\ Len(log) >= 2 /\ Len(log) < Len(Steps(tx))
    /\ \E a \in Apps, v \in InstVersions :
        before.dirs[a][v] = "absent" /\ dirs[a][v] = "full"

----------------------------------------------------------------------------
(* The command handlers (main.rs).  Each command of the command line is    *)
(* one action: the handler resolves the version, builds a transaction and  *)
(* executes it.  The user confirms every prompt.                           *)

\* what the plugins of the applications answer to get_versions
HandlerAnswers == {Ok(<<New, Old>>), Err("VersionFetch")}

\* the plugin is asked only when the cached list is empty
HandlerAnswersFor(name) ==
    IF get_versions(cache, name) = <<>> THEN HandlerAnswers ELSE {Ok(<<>>)}

\* what the environment decides during one command on application name: a failure of the
\* plugin and the order of the binaries of name
HandlerEnvs(name) ==
    {Env(fail, [SomeOrder EXCEPT ![name] = o]) :
        fail \in 0..MaxFailAt, o \in Perms(BinNames(name))}

\* the record of a command: its name and its arguments
Command(op, name, req) == [op |-> op, app |-> name, req |-> req]

\* the handler returns res without executing a transaction; c is the cache it leaves
Returns(cmd, c, res) ==
    /\ call' = cmd
    /\ cache' = c
    /\ added' = <<>>
    /\ tx' = NoTx
    /\ log' = <<>>
    /\ pc' = [at |-> "returned", res |-> res, clean |-> pc.clean /\ res.ok]
    /\ before' = Disk
    /\ UNCHANGED diskvars

\* the handler adds cmds to a new TransactionExecutor and executes it
Executes(cmd, c, cmds, env) ==
    LET t == AddAll(NoTx, cmds)
    IN  /\ env.fail \in FailPoints(t)
        /\ \E r \in {execute(Disk, t, env)} :
            /\ log' = r.log
            /\ pc' = [at |-> "executed", res |-> r.res, clean |-> pc.clean /\ r.res.ok]
            /\ DiskBecomes(r.d)
        /\ call' = cmd
        /\ cache' = c
        /\ added' = cmds
        /\ tx' = t
        /\ before' = Disk

\* Commands::Install, for one application
InstallCommands(d, name, version) ==
    LET linked_version == find_installed_version_from_lockfile(d, name)
    IN  <<Install(name, version)>>
        \o (IF linked_version = None \/ is_major_version_equal(linked_version, version)
            THEN <<LockfileUpdate(name, version)>> ELSE <<>>)
        \o <<Link(name, version, FALSE)>>

InstallHandler(name, req) ==
    \E p \in HandlerAnswersFor(name) :
        \E r \in {install_version_of(cache, name, req, p)} :
            LET cmd == Command("install", name, req)
            IN  IF ~r.res.ok THEN Returns(cmd, r.cache, r.res)
                ELSE IF package_exists(Disk, name, r.res.val)
                     THEN Returns(cmd, r.cache, Ok(None))
                     ELSE \E env \in HandlerEnvs(name) :
                            Executes(cmd, r.cache, InstallCommands(Disk, name, r.res.val), env)

\* app_upgrade, for one application
UpgradeCommands(d, name, old_version, new_version) ==
    LET current_installed == find_installed_version_from_lockfile(d, name)
        overwrite_installed == current_installed = old_version
    IN  <<Install(name, new_version), Link(name, new_version, overwrite_installed),
          LockfileUpdate(name, new_version), Remove(name, old_version)>>

\* upgrade_latest is the setting of the plugin that check_upgrade_latest reads
UpgradeHandler(name, req, upgrade_latest) ==
    LET old_version == IF req = NoReq THEN find_installed_version_from_lockfile(Disk, name)
                       ELSE find_installed_major_release(Disk, name, req)
        version_range == IF upgrade_latest THEN Star ELSE Text(old_version)
        cmd == Command("upgrade", name, req)
    IN  IF old_version = None THEN Returns(cmd, cache, Err("AppNotInstalled"))
        ELSE \E p \in HandlerAnswersFor(name) :
            \E r \in {get_latest_major_release(cache, name, version_range, p)} :
                IF ~r.res.ok THEN Returns(cmd, r.cache, r.res)
                ELSE IF r.res.val = None
                     THEN Returns(cmd, r.cache, Err("AppVersionNotFound"))
                ELSE IF old_version = r.res.val THEN Returns(cmd, r.cache, Ok(None))
                ELSE IF find_installed_version_from_lockfile(Disk, name) = None
                     THEN Returns(cmd, r.cache, Err("LockfileAppVersion"))
                ELSE \E env \in HandlerEnvs(name) :
                        Executes(cmd, r.cache,
                                 UpgradeCommands(Disk, name, old_version, r.res.val), env)

\* Commands::Uninstall, for one application
UninstallCommands(d, name, ver) ==
    LET current_version == find_installed_version_from_lockfile(d, name)
        get_release == find_installed_major_release(d, name, Star)
    IN  IF ver = None
        THEN <<RemoveAll(name), Unlink(name), LockfileUpdate(name, None)>>
        ELSE <<Remove(name, ver)>>
             \o (IF current_version # ver THEN <<>>
                 ELSE <<Unlink(name)>>
                      \o (IF get_release # None
                          THEN <<Link(name, ver, TRUE), LockfileUpdate(name, get_release)>>
                          ELSE <<RemoveAll(name), LockfileUpdate(name, None)>>))

UninstallHandler(name, req) ==
    LET ver == IF req = NoReq THEN None
               ELSE IF VersionParses(req) THEN req.v
               ELSE find_installed_major_release(Disk, name, req)
        cmd == Command("uninstall", name, req)
    IN  IF req # NoReq /\ ver = None THEN Returns(cmd, cache, Err("AppVersionNotFound"))
        ELSE IF ver # None /\ find_installed_version_from_lockfile(Disk, name) = None
             THEN Returns(cmd, cache, Err("AppNotInstalled"))
        ELSE \E env \in HandlerEnvs(name) :
                Executes(cmd, cache, UninstallCommands(Disk, name, ver), env)

\* Commands::Link
LinkHandler(name, req) ==
    LET version == IF VersionParses(req) THEN req.v
                   ELSE find_installed_major_release(Disk, name, req)
        cmd == Command("link", name, req)
    IN  IF version = None THEN Returns(cmd, cache, Err("AppNotInstalled"))
        ELSE \E env \in HandlerEnvs(name) :
                Executes(cmd, cache,
                         <<Link(name, version, TRUE), LockfileUpdate(name, version)>>, env)

\* Commands::Unlink
UnlinkHandler(name) ==
    \E env \in HandlerEnvs(name) :
        Executes(Command("unlink", name, NoReq), cache, <<Unlink(name)>>, env)

\* Commands::Refresh with a name
RefreshHandler(name) ==
    \E p \in HandlerAnswers :
        \E o \in {update_versions(cache, name, p)} :
            Returns(Command("refresh", name, NoReq), o.cache, o.res)

\* the command lines: application and requirement
InstallArgs == {<<"x", NoReq>>, <<"x", Text(Old)>>, <<"y", NoReq>>}
UpgradeArgs == {<<"x", NoReq>>}
UninstallArgs == {<<"x", NoReq>>, <<"x", Text(Old)>>}
LinkArgs == {<<"x", Text(Old)>>, <<"x", Star>>}
UnlinkArgs == {"x", "y"}
RefreshArgs == {"x"}

Init ==
    /\ call = NoCall
    /\ cache = <<>>
    /\ FreshDisk
    /\ NoTransaction

Next ==
    \/ \E a \in InstallArgs : InstallHandler(a[1], a[2])
    \/ \E a \in UpgradeArgs, upgrade_latest \in BOOLEAN : UpgradeHandler(a[1], a[2], upgrade_latest)
    \/ \E a \in UninstallArgs : UninstallHandler(a[1], a[2])
    \/ \E a \in LinkArgs : LinkHandler(a[1], a[2])
    \/ \E name \in UnlinkArgs : UnlinkHandler(name)
    \/ \E name \in RefreshArgs : RefreshHandler(name)

Spec == Init /\ [][Next]_vars

\* every binary of application a is linked into its version v
LinksPointTo(a, v) == \A b \in BinNames(a) : links[b] = LinkTo(a, v)

\* C4: after a transaction that succeeded and that contains a Link command, every binary
\* of the application of that command is linked into the version that the lockfile
\* records for the application.
C4_LinksFollowLockfile ==
    (pc.at = "executed" /\ pc.res.ok) =>
        \A i \in 1..Len(added) :
            added[i].type = "Link" =>
                LinksPointTo(added[i].app,
                             find_installed_version_from_lockfile(Disk, added[i].app))

\* C5: after commands that all succeeded, for every installed version v of every
\* application a, the binaries of a are linked into v exactly when the lockfile records
\* v for a.
C5_LinkedIffLocked ==
    pc.clean =>
        \A a \in Apps, v \in InstVersions :
            dirs[a][v] = "full" =>
                (LinksPointTo(a, v) <=> find_installed_version_from_lockfile(Disk, a) = v)

----------------------------------------------------------------------------
(* Comparison of version strings: the inputs are drawn at the start and    *)
(* is_major_version_equal is applied to them.                              *)

MaxMajor == 3
MaxMinor == 2
MaxPatch == 1

\* the version pairs of the documented examples, and two major 1 versions far apart
ExampleVersions ==
    {V(0, 3, 1), V(0, 3, 9), V(0, 4, 0), V(2, 1, 0), V(2, 9, 9), V(3, 0, 0), V(1, 9, 0)}

SemanticVersions ==
    {V(a, b, c) : a \in 0..MaxMajor, b \in 0..MaxMinor, c \in 0..MaxPatch} \cup ExampleVersions

VersionStrings == SemanticVersions \cup {Tok("nightly"), Tok("stable")}

InitMajor ==
    /\ call \in [op : {"is_major_version_equal"}, old_version : VersionStrings,
                 new_version : VersionStrings, done : {FALSE}, out : {FALSE}]
    /\ cache = <<>>
    /\ FreshDisk
    /\ NoTransaction

Compare ==
    /\ call.op = "is_major_version_equal"
    /\ ~call.done
    /\ call' = [call EXCEPT !.done = TRUE,
                            !.out = is_major_version_equal(call.old_version, call.new_version)]
    /\ UNCHANGED <<cache, diskvars, txvars>>

NextMajor == Compare

SpecMajor == InitMajor /\ [][NextMajor]_vars

\* C6: is_major_version_equal(X.Y.Z, X'.Y'.Z') is true exactly when
\* (X = 0 and X' = 0 and Y = Y') or (X >= 1 and X = X')
C6_MajorRule ==
    (call.op = "is_major_version_equal" /\ call.done
        /\ IsSemver(call.old_version) /\ IsSemver(call.new_version)) =>
    LET a == call.old_version
        b == call.new_version
    IN  call.out = (\/ a.major = 0 /\ b.major = 0 /\ a.minor = b.minor
                    \/ a.major >= 1 /\ a.major = b.major)

----------------------------------------------------------------------------
(* Version resolution against the version cache.  The operations are      *)
(* called for application x; y is another entry of the cache.  The cache   *)
(* file is a document a user can edit and that holds what the plugin       *)
(* answered earlier, so it starts with any list.                           *)

MaxLen == 3
MaxPluginLen == 2

\* the version strings upstream publishes
ListVersions == {V(2, 1, 0), V(2, 0, 0), V(1, 9, 0), Tok("nightly")}

\* what plugin.get_versions() answers: a list in any order, or an error
PluginAnswers == {Ok(l) : l \in Seqs(ListVersions, MaxPluginLen)} \cup {Err("VersionFetch")}

\* the requirements given on the command line
Requirements ==
    {NoReq, Text(V(2, 0, 0)), Text(Tok("nightly")), Caret(2, 0, 0), Caret(1, 0, 0),
     Caret(9, 0, 0), Star, BadReq}

ResolvedApps == {"x"}

\* the record of a call: pre is the cached list the call found for the application
Called(op, name, req, o) ==
    [op |-> op, app |-> name, req |-> req,
     pre |-> IF op = "update_versions" THEN <<>> ELSE get_versions(cache, name),
     res |-> o.res, consulted |-> o.consulted]

InitResolve ==
    /\ call = NoCall
    /\ cache \in {[n \in D |-> IF n = "x" THEN l ELSE <<V(1, 9, 0)>>] :
                    D \in SUBSET Apps, l \in Seqs(ListVersions, MaxLen)}
    /\ FreshDisk
    /\ NoTransaction

\* the plugin is asked only when the cached list is empty
AnswersFor(name) ==
    IF get_versions(cache, name) = <<>> THEN PluginAnswers ELSE {Ok(<<>>)}

\* Commands::Refresh with a name: CyreneManager::update_versions
UpdateVersions(name) ==
    \E p \in PluginAnswers :
        LET o == update_versions(cache, name, p)
        IN  /\ call' = Called("update_versions", name, NoReq, o)
            /\ cache' = o.cache
            /\ UNCHANGED <<diskvars, txvars>>

\* Commands::Versions: CyreneManager::versions
Versions(name) ==
    \E p \in AnswersFor(name) :
        LET o == versions(cache, name, p)
        IN  /\ call' = Called("versions", name, NoReq, o)
            /\ cache' = o.cache
            /\ UNCHANGED <<diskvars, txvars>>

GetLatestVersion(name) ==
    \E p \in AnswersFor(name) :
        LET o == get_latest_version(cache, name, p)
        IN  /\ call' = Called("get_latest_version", name, NoReq, o)
            /\ cache' = o.cache
            /\ UNCHANGED <<diskvars, txvars>>

GetLatestMajorRelease(name, range) ==
    \E p \in AnswersFor(name) :
        LET o == get_latest_major_release(cache, name, range, p)
        IN  /\ call' = Called("get_latest_major_release", name, range, o)
            /\ cache' = o.cache
            /\ UNCHANGED <<diskvars, txvars>>

\* the resolution of app@requirement by Commands::Install
Resolve(name, req) ==
    \E p \in AnswersFor(name) :
        LET o == install_version_of(cache, name, req, p)
        IN  /\ call' = Called("resolve", name, req, o)
            /\ cache' = o.cache
            /\ UNCHANGED <<diskvars, txvars>>

NextResolve ==
    \/ \E name \in ResolvedApps : UpdateVersions(name)
    \/ \E name \in ResolvedApps : Versions(name)
    \/ \E name \in ResolvedApps : GetLatestVersion(name)
    \/ \E name \in ResolvedApps, range \in Requirements \ {NoReq} : GetLatestMajorRelease(name, range)
    \/ \E name \in ResolvedApps, req \in Requirements : Resolve(name, req)

SpecResolve == InitResolve /\ [][NextResolve]_vars

\* a list of semantic versions in descending order, newest first
Descending(l) == \A i, j \in 1..Len(l) : i < j => ~VersionLess(l[i], l[j])

\* C7: range resolution returns the highest semantic version of the cached list that
\* satisfies the range, whatever the order of the list, and reports not found when
\* no cached version satisfies it
C7_RangeHighest ==
    (call.op = "get_latest_major_release" /\ call.res.ok /\ ReqParses(call.req)) =>
    LET sat == {v \in Elems(get_versions(cache, call.app)) :
                    IsSemver(v) /\ Matches(call.req, v)}
    IN  call.res.val = (IF sat = {} THEN None ELSE Highest(sat))

\* C8: after update_versions(app) the list stored for app is in descending version
\* order, whatever order the plugin answered in
C8_CacheDescending ==
    (call.op = "update_versions" /\ call.res.ok) =>
    Descending(SemverOnly(get_versions(cache, call.app)))

\* C9: with no requirement, resolution returns the first entry of the cached list of
\* the app, and the version-not-cached error when the list is still empty after the
\* plugin was consulted
C9_LatestFirst ==
    (call.op = "get_latest_version") =>
    LET l == get_versions(cache, call.app)
    IN  /\ l # <<>> => call.res = Ok(l[1])
        /\ (l = <<>> /\ call.res.err # "VersionFetch") =>
                (call.consulted /\ call.res = Err("AppVersionNotInCacheError"))

C9_Witness ==
    /\ call.op = "get_latest_version"
    /\ call.pre = <<>>
    /\ call.consulted
    /\ call.res = Ok(V(2, 0, 0))
    /\ cache["x"] = <<V(2, 0, 0), V(2, 1, 0)>>

L210 == <<V(2, 1, 0), V(2, 0, 0), V(1, 9, 0)>>

\* C10: when the cache of x holds [2.1.0, 2.0.0, 1.9.0], resolution with no requirement
\* returns 2.1.0, with ^2.0.0 returns 2.1.0, with ^1.0.0 returns 1.9.0 and with ^9.0.0
\* the not-found error, and the plugin is not consulted
C10_RoundTrip ==
    (call.op = "resolve" /\ call.app = "x" /\ call.pre = L210) =>
        /\ ~call.consulted
        /\ cache["x"] = L210
        /\ call.req = NoReq => call.res = Ok(V(2, 1, 0))
        /\ call.req = Caret(2, 0, 0) => call.res = Ok(V(2, 1, 0))
        /\ call.req = Caret(1, 0, 0) => call.res = Ok(V(1, 9, 0))
        /\ call.req = Caret(9, 0, 0) => call.res = Err("AppVersionNotFound")

C10_Witness ==
    /\ call.op = "resolve" /\ call.app = "x" /\ call.pre = L210
    /\ call.req = Caret(1, 0, 0)
    /\ call.res = Ok(V(1, 9, 0))

\* C11: when the requirement of install parses as a semantic version, the version
\* resolved is that version, the plugin is not asked for its versions and the version
\* cache is left as it was, whatever the cache holds.
C11_ExactUnchecked ==
    [][(call'.op = "resolve" /\ VersionParses(call'.req)) =>
            /\ call'.res = Ok(call'.req.v)
            /\ ~call'.consulted
            /\ cache' = cache]_vars

\* an exact version resolved while the cached list of the application is empty, and
\* while it holds other versions only
C11_Witness ==
    /\ call.op = "resolve" /\ call.req = Text(V(2, 0, 0))
    /\ call.res = Ok(V(2, 0, 0))
    /\ call.pre \in {<<>>, <<V(1, 9, 0)>>}
    /\ get_versions(cache, "x") = call.pre

\* C12: versions(app) asks the plugin exactly when the cached list of app is empty and
\* then stores the plugin's answer as the list of app and returns it; a cached list that
\* is not empty is returned and left as it is.
C12_FillOnEmpty ==
    call.op = "versions" =>
        /\ call.consulted <=> call.pre = <<>>
        /\ call.pre # <<>> =>
            (call.res = Ok(call.pre) /\ get_versions(cache, call.app) = call.pre)
        /\ (call.pre = <<>> /\ call.res.ok) =>
            call.res.val = get_versions(cache, call.app)

\* versions found the list empty, asked the plugin and stored its answer
C12_Witness ==
    /\ call.op = "versions"
    /\ call.pre = <<>>
    /\ call.consulted
    /\ call.res = Ok(<<V(2, 0, 0), V(2, 1, 0)>>)
    /\ cache["x"] = <<V(2, 0, 0), V(2, 1, 0)>>


----------------------------------------------------------------------------
(* The version cache on its own: update_version_cache and get_versions     *)
(* called for any application with any list.                               *)

MaxCacheLen == 2

\* the version strings of the lists stored
CacheVersions == {V(2, 1, 0), V(2, 0, 0)}

CacheLists == Seqs(CacheVersions, MaxCacheLen)

\* the cache file is absent or holds no table at first
InitCache ==
    /\ call = NoCall
    /\ cache = <<>>
    /\ FreshDisk
    /\ NoTransaction

\* CyreneVersionCacheManager::update_version_cache; pre is the list found for name
UpdateVersionCache(name, list) ==
    /\ call' = [op |-> "update_version_cache", app |-> name, list |-> list,
                pre |-> get_versions(cache, name), res |-> Ok(None)]
    /\ cache' = update_version_cache(cache, name, list)
    /\ UNCHANGED <<diskvars, txvars>>

\* CyreneVersionCacheManager::get_versions
GetVersions(name) ==
    /\ call' = [op |-> "get_versions", app |-> name, list |-> <<>>,
                pre |-> get_versions(cache, name), res |-> Ok(get_versions(cache, name))]
    /\ UNCHANGED <<cache, diskvars, txvars>>

NextCache ==
    \/ \E name \in Apps, list \in CacheLists : UpdateVersionCache(name, list)
    \/ \E name \in Apps : GetVersions(name)

SpecCache == InitCache /\ [][NextCache]_vars

\* C13: after update_version_cache(app, L) the list of app is exactly L and the list of
\* every other application is as before; get_versions returns the stored list, the empty
\* list for an application never stored, without error and without changing the cache.
C13_CacheOverwrite ==
    [][/\ call'.op = "update_version_cache" =>
            /\ get_versions(cache', call'.app) = call'.list
            /\ \A other \in Apps \ {call'.app} :
                /\ get_versions(cache', other) = get_versions(cache, other)
                /\ other \in DOMAIN cache' <=> other \in DOMAIN cache
       /\ call'.op = "get_versions" =>
            /\ cache' = cache
            /\ call'.res = Ok(IF call'.app \in DOMAIN cache THEN cache[call'.app] ELSE <<>>)
      ]_vars

\* a list stored over a list with which it shares no entry, while the other application
\* has a list of its own
C13_Witness ==
    /\ call.op = "update_version_cache" /\ call.app = "x"
    /\ call.pre = <<V(2, 1, 0)>>
    /\ call.list = <<V(2, 0, 0)>>
    /\ cache["x"] = <<V(2, 0, 0)>>
    /\ "y" \in DOMAIN cache /\ cache["y"] = <<V(2, 1, 0), V(2, 0, 0)>>

----------------------------------------------------------------------------
(* The lockfile manager on its own: the default lockfile, a local lockfile *)
(* that a user wrote, and the four operations of lockfile.rs on them.      *)

\* a versions table of a lockfile
VersionTables == [Apps -> InstVersions \cup {None}]

\* the default lockfile is absent at first; the local lockfiles hold what their authors wrote
InitLockfile ==
    /\ call = NoCall
    /\ cache = <<>>
    /\ \E l \in [Paths -> VersionTables] : DiskIs([FreshDiskValue EXCEPT !.locals = l])
    /\ NoTransaction

\* the record of a call of the lockfile manager: pre is what the files held at the call
LockfileCall(op, name, version, path, res) ==
    [op |-> op, app |-> name, version |-> version, path |-> path,
     pre |-> [lockfile |-> lockfile, locals |-> locals], res |-> res]

\* CyreneLockfileManager::update_lockfile
UpdateLockfile(name, version) ==
    \E r \in {update_lockfile(Disk, name, version)} :
        /\ call' = LockfileCall("update_lockfile", name, version, NoPath, r.res)
        /\ DiskBecomes(r.d)
        /\ UNCHANGED <<cache, txvars>>

\* CyreneLockfileManager::find_installed_version_from_lockfile
FindInstalledVersion(name) ==
    /\ call' = LockfileCall("find_installed_version", name, None, NoPath,
                            Ok(find_installed_version_from_lockfile(Disk, name)))
    /\ UNCHANGED <<cache, diskvars, txvars>>

\* CyreneLockfileManager::use_local_lockfile
UseLocalLockfile(path) ==
    \E r \in {use_local_lockfile(Disk, path)} :
        /\ call' = LockfileCall("use_local_lockfile", "", None, path, r.res)
        /\ DiskBecomes(r.d)
        /\ UNCHANGED <<cache, txvars>>

\* CyreneLockfileManager::use_default_lockfile
UseDefaultLockfile ==
    \E r \in {use_default_lockfile(Disk)} :
        /\ call' = LockfileCall("use_default_lockfile", "", None, NoPath, r.res)
        /\ DiskBecomes(r.d)
        /\ UNCHANGED <<cache, txvars>>

NextLockfile ==
    \/ \E name \in Apps, version \in InstVersions \cup {None} : UpdateLockfile(name, version)
    \/ \E name \in Apps : FindInstalledVersion(name)
    \/ \E path \in Paths \cup {MissingPath} : UseLocalLockfile(path)
    \/ UseDefaultLockfile

SpecLockfile == InitLockfile /\ [][NextLockfile]_vars

\* the files as they were at the last call, as a disk
PreDisk == [Disk EXCEPT !.lockfile = call.pre.lockfile, !.locals = call.pre.locals]

\* C14: when the pointer of the default lockfile is set, update_lockfile(app, Some(v))
\* writes v for app into the local lockfile the pointer names, changes no other entry of
\* it, and leaves the default lockfile, its versions table and its pointer, as it was.
C14_RedirectedWrite ==
    (call.op = "update_lockfile" /\ call.version # None
        /\ call.pre.lockfile.loaded_lockfile # NoPath) =>
        LET path == call.pre.lockfile.loaded_lockfile
        IN  /\ call.res.ok
            /\ locals[path] = [call.pre.locals[path] EXCEPT ![call.app] = call.version]
            /\ lockfile = call.pre.lockfile

\* a version written through the pointer while the default lockfile records another
\* version for the application
C14_Witness ==
    /\ call.op = "update_lockfile" /\ call.app = "y" /\ call.version = V(2, 1, 0)
    /\ call.pre.lockfile.loaded_lockfile \in Paths
    /\ lockfile.versions["y"] = V(2, 0, 0)
    /\ call.pre.locals[call.pre.lockfile.loaded_lockfile]["y"] = None
    /\ locals[lockfile.loaded_lockfile]["y"] = V(2, 1, 0)

\* C15: when the pointer is set, find_installed_version(app) returns the entry of app in
\* the local lockfile the pointer names, None when that file has no entry for app,
\* whatever the versions table of the default lockfile holds.
C15_LocalAuthoritative ==
    (call.op = "find_installed_version" /\ lockfile.loaded_lockfile # NoPath) =>
        call.res = Ok(locals[lockfile.loaded_lockfile][call.app])

\* C16: with or without a pointer, after update_lockfile(app, Some(v))
\* find_installed_version(app) returns v and find_installed_version of every other
\* application returns what it returned before.
C16_UpdateThenFind ==
    (call.op = "update_lockfile" /\ call.version # None) =>
        /\ find_installed_version_from_lockfile(Disk, call.app) = call.version
        /\ \A other \in Apps \ {call.app} :
            find_installed_version_from_lockfile(Disk, other)
                = find_installed_version_from_lockfile(PreDisk, other)

\* an update through the pointer of an application for which the default lockfile
\* records another version, while the other application is recorded in the default one
C16_Witness ==
    /\ call.op = "update_lockfile" /\ call.app = "x" /\ call.version = V(2, 1, 0)
    /\ lockfile.loaded_lockfile \in Paths
    /\ lockfile.versions["x"] = V(2, 0, 0)
    /\ lockfile.versions["y"] = V(2, 0, 0)
    /\ locals[lockfile.loaded_lockfile]["y"] = None
    /\ find_installed_version_from_lockfile(Disk, "x") = V(2, 1, 0)

\* C17: with or without a pointer, after update_lockfile(app, None)
\* find_installed_version(app) returns None, also when the default lockfile holds an
\* entry for app while a pointer is set.
C17_ClearThenFind ==
    (call.op = "update_lockfile" /\ call.version = None) =>
        find_installed_version_from_lockfile(Disk, call.app) = None

\* C18: use_local_lockfile and use_default_lockfile change the pointer of the default
\* lockfile and nothing else: its versions table and the local lockfiles are as before;
\* after use_default_lockfile every read returns the entry of the default lockfile.
C18_PointerOnly ==
    /\ call.op = "use_local_lockfile" =>
        /\ lockfile.versions = call.pre.lockfile.versions
        /\ locals = call.pre.locals
        /\ lockfile.loaded_lockfile =
            (IF call.res.ok THEN call.path ELSE call.pre.lockfile.loaded_lockfile)
    /\ call.op = "use_default_lockfile" =>
        /\ call.res.ok
        /\ lockfile.versions = call.pre.lockfile.versions
        /\ locals = call.pre.locals
        /\ lockfile.loaded_lockfile = NoPath
        /\ \A a \in Apps :
            find_installed_version_from_lockfile(Disk, a) = lockfile.versions[a]

\* the pointer is taken away while the local lockfile and the default lockfile record
\* different versions for x
C18_Witness ==
    /\ call.op = "use_default_lockfile"
    /\ call.pre.lockfile.loaded_lockfile \in Paths
    /\ locals[call.pre.lockfile.loaded_lockfile]["x"] = V(2, 1, 0)
    /\ lockfile.versions["x"] = V(2, 0, 0)
    /\ lockfile.loaded_lockfile = NoPath

----------------------------------------------------------------------------
(* Linking, in the transactions of the install and link commands.  In      *)
(* these the Link command is the only one that touches exe_dir, so the     *)
(* links when Link begins are those of the disk when execute began.        *)

\* the steps of the last execute that ran a Link command
LinkSteps == {i \in 1..Len(log) : log[i].cmd.type = "Link"}

\* C19: when Link runs for a version whose directory is there, then for each binary of
\* the application: a destination that was absent is linked into the version; one that
\* was there is left as it was when overwrite is false and is linked into the version when
\* overwrite is true; and the call returns whether a destination was left as it was.
C19_LinkPerBinary ==
    (pc.at = "executed" /\ call.op \in {"install", "link"}) =>
        \A i \in LinkSteps :
            LET c == log[i].cmd
            IN  dirs[c.app][c.version] # "absent" =>
                    /\ log[i].ok
                    /\ \A b \in BinNames(c.app) :
                        links[b] = IF before.links[b] # NoLink /\ ~c.overwrite
                                   THEN before.links[b] ELSE LinkTo(c.app, c.version)
                    /\ log[i].val = (~c.overwrite
                                     /\ \E b \in BinNames(c.app) : before.links[b] # NoLink)

\* C20: the link command with overwrite, given for a version that is installed, succeeds,
\* and when it is given again right after it succeeds again and leaves every link as the
\* first time.
C20_LinkIdempotent ==
    [][(call'.op = "link" /\ pc'.at = "executed"
            /\ dirs[call'.app][added'[1].version] = "full") =>
            /\ pc'.res.ok
            /\ (call = call' /\ pc.at = "executed" /\ added = added') => links' = links
      ]_vars

----------------------------------------------------------------------------
(* Linking when the running executable is in exe_dir                       *)
(* (manager.rs, link_plugin_binaries).  std::env::current_exe() is an      *)
(* input of each call: the name in exe_dir at which the executable is, or  *)
(* CurrentExe when it is elsewhere.  The loop returns before it reads the  *)
(* entry of that name.                                                     *)

\* the installations the calls start from: each version installed or not, no link
LinkDisks ==
    {[FreshDiskValue EXCEPT !.dirs = ds,
                            !.root = [a \in Apps |-> \E v \in InstVersions : ds[a][v] # "absent"]] :
        ds \in [Apps -> [InstVersions -> {"absent", "full"}]]}

InitLink ==
    /\ call = NoCall
    /\ cache = <<>>
    /\ \E d \in LinkDisks : DiskIs(d)
    /\ NoTransaction

\* CyreneManager::link_binaries
LinkBinaries(name, version, overwrite, order, current_exe) ==
    /\ \E r \in {link_plugin_binaries(Disk, name, version, overwrite, order[name], current_exe)} :
           /\ DiskBecomes(r.d)
           /\ call' = [op |-> "link_binaries", app |-> name, version |-> version,
                       overwrite |-> overwrite, current_exe |-> current_exe, res |-> r.res]
    /\ UNCHANGED <<cache, txvars>>

NextLink ==
    \E name \in Apps, version \in InstVersions, overwrite \in BOOLEAN, order \in BinOrders,
       current_exe \in Bins \cup {CurrentExe} :
        LinkBinaries(name, version, overwrite, order, current_exe)

SpecLink == InitLink /\ [][NextLink]_vars

\* C21: a call of link_binaries for an installed version of an application one of whose
\* binaries is at the place of the running executable returns the self-link error and
\* leaves every link as it was.
C21_SelfLinkNoChange ==
    [][(/\ call'.op = "link_binaries"
        /\ call'.current_exe \in BinNames(call'.app)
        /\ dirs[call'.app][call'.version] # "absent") =>
            /\ call'.res = Err("AppLinkingToItselfError")
            /\ links' = links
      ]_vars

----------------------------------------------------------------------------
(* Unlinking through the Unlink command (main.rs, Commands::Unlink).       *)

\* C22: the unlink command fails with the app-not-in-lockfile error and leaves the
\* installation as it was when the lockfile read for the application gives no version;
\* otherwise, when it succeeds, no binary name of the application has a link.
C22_UnlinkRemoves ==
    (call.op = "unlink" /\ pc.at = "executed") =>
        IF find_installed_version_from_lockfile(before, call.app) = None
        THEN pc.res = Err("AppNotInLockfileError") /\ Disk = before
        ELSE pc.res.ok => \A b \in BinNames(call.app) : links[b] = NoLink

----------------------------------------------------------------------------
(* The phases of execute and what each may change (transaction.rs).        *)

\* the last execute stopped at an install or a post-install of (a, v) that failed
InstallFailed(a, v) ==
    /\ pc.at = "executed"
    /\ log # <<>>
    /\ ~log[Len(log)].ok
    /\ log[Len(log)].phase \in {"install", "post_install"}
    /\ log[Len(log)].cmd = Install(a, v)

\* cmd is one of the commands added to the transaction
Added(cmd) == \E i \in 1..Len(added) : added[i] = cmd

\* C23: when a transaction holds Install of a new version and Remove of an old version of
\* an application, and the install or the post-install of the new version fails, the
\* directory of the old version is as before the transaction, and so are the lockfiles
\* and the links.
C23_FailedInstallKeepsOld ==
    \A a \in Apps, new \in InstVersions, old \in InstVersions :
        (new # old /\ Added(Install(a, new)) /\ Added(Remove(a, old)) /\ InstallFailed(a, new)) =>
            /\ dirs[a][old] = before.dirs[a][old]
            /\ lockfile = before.lockfile
            /\ locals = before.locals
            /\ links = before.links

C23_Witness ==
    /\ Added(Install("x", New)) /\ Added(Remove("x", Old)) /\ InstallFailed("x", New)
    /\ before.dirs["x"][Old] = "full"
    /\ before.links["x"] = LinkTo("x", Old)
    /\ before.lockfile.versions["x"] = Old
    /\ dirs["x"][Old] = "full"

Phases == {"install", "post_install", "remove", "finish"}

\* the phase of execute runs the command
InPhase(phase, cmd) ==
    CASE phase \in {"install", "post_install"} -> cmd.type = "Install"
      [] phase = "remove" -> cmd.type \in {"Remove", "RemoveAll"}
      [] phase = "finish" -> cmd.type \in {"LockfileUpdate", "Link", "Unlink"}

\* the commands of a phase in the order of the calls of add
AddedOf(phase) == SelectSeq(added, LAMBDA c : InPhase(phase, c))

\* the commands that the last execute ran in a phase, in the order it ran them
RanOf(phase) ==
    LET l == SelectSeq(log, LAMBDA s : s.phase = phase)
    IN  [i \in 1..Len(l) |-> l[i].cmd]

IsPrefix(p, q) == Len(p) <= Len(q) /\ SubSeq(q, 1, Len(p)) = p

\* C24: in every phase execute runs the commands of the phase in the order in which they
\* were added: what it ran in the phase is the beginning of the added commands of the
\* phase, and all of them when execute succeeds.
C24_AddOrderInPhase ==
    pc.at = "executed" =>
        \A phase \in Phases :
            /\ IsPrefix(RanOf(phase), AddedOf(phase))
            /\ pc.res.ok => RanOf(phase) = AddedOf(phase)

\* a successful execute of two different installs and two different finish commands, added
\* with the finish commands first
C24_Witness ==
    /\ pc.at = "executed" /\ pc.res.ok
    /\ Len(RanOf("install")) = 2 /\ RanOf("install")[1] # RanOf("install")[2]
    /\ Len(RanOf("post_install")) = 2
    /\ Len(RanOf("finish")) = 2 /\ RanOf("finish")[1] # RanOf("finish")[2]
    /\ InPhase("finish", added[1]) /\ InPhase("install", added[Len(added)])

\* C25: an execute of Remove and RemoveAll commands alone changes neither the lockfiles
\* nor any link, and when it succeeds the directories of the versions it names (all the
\* versions of the application for RemoveAll) are gone and the others are as before.
C25_RemoveOnlyDeletes ==
    (pc.at = "executed" /\ added # <<>> /\ \A i \in 1..Len(added) : InPhase("remove", added[i])) =>
        /\ lockfile = before.lockfile
        /\ locals = before.locals
        /\ links = before.links
        /\ pc.res.ok =>
               \A a \in Apps, v \in InstVersions :
                   dirs[a][v] = IF Added(RemoveAll(a)) \/ Added(Remove(a, v))
                                THEN "absent" ELSE before.dirs[a][v]

\* the steps of the last execute that set the links or the lockfile to a version
SetsVersion(i) ==
    /\ log[i].phase = "finish"
    /\ log[i].cmd.type \in {"Link", "LockfileUpdate"}
    /\ log[i].cmd.version # None

\* C26: a Link or a LockfileUpdate to a version succeeds only when the directory of the
\* version is there (no step of the Finish phase creates or deletes a directory, so the
\* directories when the step ran are those when execute returned); and when execute ran
\* nothing but such a step for a version whose directory is absent, the lockfiles and the
\* links are as before.
C26_FinishNeedsDirectory ==
    pc.at = "executed" =>
        \A i \in 1..Len(log) :
            SetsVersion(i) =>
                /\ log[i].ok => dirs[log[i].cmd.app][log[i].cmd.version] # "absent"
                /\ (Len(log) = 1 /\ dirs[log[i].cmd.app][log[i].cmd.version] = "absent") =>
                        /\ lockfile = before.lockfile
                        /\ locals = before.locals
                        /\ links = before.links

\* C26, amended: a Link to a version succeeds only when the directory of the version is
\* there, and when execute ran nothing but a Link for a version whose directory is absent
\* it failed and the lockfiles and the links are as before; a LockfileUpdate to a version
\* is not tested against the directory, and the version is installed when it runs in a
\* transaction that holds the Install of that version and no Remove or RemoveAll of it.
C26_LinkNeedsDirectory ==
    pc.at = "executed" =>
        \A i \in 1..Len(log) :
            LET a == log[i].cmd.app
                v == log[i].cmd.version
            IN  SetsVersion(i) =>
                    /\ log[i].cmd.type = "Link" =>
                        /\ log[i].ok => dirs[a][v] # "absent"
                        /\ (Len(log) = 1 /\ dirs[a][v] = "absent") =>
                                /\ ~log[i].ok
                                /\ lockfile = before.lockfile
                                /\ locals = before.locals
                                /\ links = before.links
                    /\ (/\ log[i].cmd.type = "LockfileUpdate"
                        /\ Added(Install(a, v))
                        /\ ~Added(Remove(a, v)) /\ ~Added(RemoveAll(a))) => dirs[a][v] = "full"

\* a Link of a version that is not installed ran alone and failed, on an installation with
\* links and a lockfile entry
C26_Witness ==
    /\ pc.at = "executed"
    /\ Len(log) = 1 /\ log[1].cmd = Link("x", New, TRUE) /\ ~log[1].ok
    /\ dirs["x"][New] = "absent"
    /\ before.links["x"] = LinkTo("x", Old)
    /\ before.lockfile.versions["x"] = Old

----------------------------------------------------------------------------
(* Loading a lockfile (manager.rs, load_lockfile): the default lockfile    *)
(* and a local lockfile hold entries that someone wrote; the installation  *)
(* is empty, or has x installed at Old and linked.                         *)

\* what the plugin of an application answers to get_versions
LoadAnswers == {Ok(<<New, Old>>), Ok(<<New>>), Err("VersionFetch")}

\* the tables of the local lockfile that is loaded
LoadTables ==
    {[NoVersions EXCEPT !["x"] = New, !["y"] = Old], [NoVersions EXCEPT !["x"] = Old],
     [NoVersions EXCEPT !["y"] = New]}

LoadDisks ==
    {[d EXCEPT !.locals = [q \in Paths |-> t]] :
        d \in {FreshDiskValue, DiskWithOld}, t \in LoadTables}

\* the list of an application that CyreneManager::versions returns: the cached one, or
\* when there is none the answer of the plugin (none when the plugin fails)
UpstreamList(c, name, p) ==
    IF get_versions(c, name) # <<>> THEN get_versions(c, name)
    ELSE IF p.ok THEN p.val ELSE <<>>

InitLoad ==
    /\ call = NoCall
    /\ cache = <<>>
    /\ \E d \in LoadDisks : DiskIs(d)
    /\ NoTransaction

\* CyreneManager::load_lockfile
LoadLockfile(loaded_lockfile, p, plugin_ok, order) ==
    /\ \E r \in {load_lockfile(Disk, cache, loaded_lockfile, p, plugin_ok, order)} :
           /\ DiskBecomes(r.d)
           /\ cache' = r.cache
           /\ call' = [op |-> "load_lockfile", path |-> loaded_lockfile, res |-> r.res,
                       upstream |-> [a \in Apps |-> UpstreamList(cache, a, p[a])]]
    /\ before' = Disk
    /\ UNCHANGED <<added, tx, pc, log>>

NextLoad ==
    \E loaded_lockfile \in Paths \cup {NoPath, MissingPath}, p \in [Apps -> LoadAnswers],
       plugin_ok \in [Apps -> BOOLEAN], order \in BinOrders :
        LoadLockfile(loaded_lockfile, p, plugin_ok, order)

SpecLoad == InitLoad /\ [][NextLoad]_vars

\* the table of the lockfile that a call of load_lockfile with this path loads
TableAt(path) == IF path # NoPath THEN locals[path] ELSE lockfile.versions

\* the entry of application a in the table is a version that its list does not hold
Nonexistent(table, upstream, a) == table[a] # None /\ table[a] \notin Elems(upstream[a])

\* C27: when an entry of the lockfile that load_lockfile loads names a version that the
\* list of its application does not hold, the call returns the lockfile-app-version error
\* and has created no directory and changed no link.
C27_LoadFailsFast ==
    [][(/\ call'.op = "load_lockfile"
        /\ call'.path # MissingPath
        /\ \E a \in Apps : Nonexistent(TableAt(call'.path), call'.upstream, a)) =>
            /\ call'.res = Err("LockfileAppVersionError")
            /\ dirs' = dirs /\ root' = root
            /\ links' = links
      ]_vars

\* a load was refused for the entry of y, and the entry of x, which comes first, is in the
\* list of x and is not installed
C27_Witness ==
    /\ call.op = "load_lockfile" /\ call.path \in Paths
    /\ call.res = Err("LockfileAppVersionError")
    /\ Nonexistent(TableAt(call.path), call.upstream, "y")
    /\ TableAt(call.path)["x"] # None
    /\ ~Nonexistent(TableAt(call.path), call.upstream, "x")
    /\ dirs["x"][TableAt(call.path)["x"]] = "absent"

\* C28: after a call of load_lockfile that succeeded, every version that the lockfile in
\* use records for an application has its directory, and every binary of the application
\* is linked into that version.
C28_LoadedIsInstalledAndLinked ==
    (call.op = "load_lockfile" /\ call.res.ok) =>
        \A a \in Apps :
            LET v == load_version_map_from_current_lockfile(Disk)[a]
            IN  v # None => dirs[a][v] # "absent" /\ LinksPointTo(a, v)

----------------------------------------------------------------------------
(* GitHub version discovery (app_module/versions.rs, process_github).  A   *)
(* page of the releases endpoint is the number of releases it holds and    *)
(* how many of them are pre-releases; the list built is the number of tags *)
(* of releases and of pre-releases pushed on it.  The state of the loop is *)
(* in call.                                                                *)

\* per_page=100 of the request, and the 100 of a.len() < 100
PageSize == 100

\* page <= 10
PageCap == 10

\* the pages the endpoint can answer: empty, one release, one short of full, full
Pages ==
    {[releases |-> n, prereleases |-> k] : n \in {0, 1, PageSize - 1, PageSize}, k \in {0, 1}}
        \ {[releases |-> 0, prereleases |-> 1]}

\* a.iter().filter(|f| !f.prerelease).map(..).collect(): the tags kept from a page
Kept(page) == [tags |-> page.releases - page.prereleases, prerelease_tags |-> 0]

\* process_github begins: versions is empty, still_more_stuff = true, page = 1
InitGithub ==
    /\ call = [op |-> "process_github", at |-> "loop", page |-> 1, still_more_stuff |-> TRUE,
               versions |-> [tags |-> 0, prerelease_tags |-> 0], requests |-> <<>>,
               res |-> Ok(None)]
    /\ cache = <<>>
    /\ FreshDisk
    /\ NoTransaction

\* one turn of the while loop in which the request succeeds with the page answered
Request(answer) ==
    /\ call.op = "process_github" /\ call.at = "loop"
    /\ call.still_more_stuff /\ call.page <= PageCap
    /\ \E a \in {Kept(answer)} :
           call' = [call EXCEPT
                      !.requests = Append(@, [page |-> call.page, answer |-> answer]),
                      !.still_more_stuff = ~(a.tags + a.prerelease_tags < PageSize),
                      !.versions = [tags |-> @.tags + a.tags,
                                    prerelease_tags |-> @.prerelease_tags + a.prerelease_tags],
                      !.page = @ + 1]
    /\ UNCHANGED <<cache, diskvars, txvars>>

\* one turn of the while loop in which the request fails: the error is returned
RequestFails ==
    /\ call.op = "process_github" /\ call.at = "loop"
    /\ call.still_more_stuff /\ call.page <= PageCap
    /\ call' = [call EXCEPT !.at = "returned", !.res = Err("VersionFetch")]
    /\ UNCHANGED <<cache, diskvars, txvars>>

\* the loop is left and the list is returned
ReturnVersions ==
    /\ call.op = "process_github" /\ call.at = "loop"
    /\ ~(call.still_more_stuff /\ call.page <= PageCap)
    /\ call' = [call EXCEPT !.at = "returned", !.res = Ok(call.versions)]
    /\ UNCHANGED <<cache, diskvars, txvars>>

NextGithub ==
    \/ \E answer \in Pages : Request(answer)
    \/ RequestFails
    \/ ReturnVersions

SpecGithub == InitGithub /\ [][NextGithub]_vars

\* C29: the requests are for the pages 1, 2, 3, ... in that order and are at most PageCap;
\* every page before the last one requested held PageSize releases, pre-releases counted;
\* when the list is returned the last page requested held fewer than PageSize releases or
\* was page PageCap; and the list holds no tag of a pre-release.
C29_Pagination ==
    call.op = "process_github" =>
        LET r == call.requests
        IN  /\ \A i \in 1..Len(r) : r[i].page = i
            /\ Len(r) <= PageCap
            /\ \A i \in 1..Len(r) - 1 : r[i].answer.releases = PageSize
            /\ (call.at = "returned" /\ call.res.ok) =>
                   /\ Len(r) >= 1
                   /\ r[Len(r)].answer.releases < PageSize \/ Len(r) = PageCap
            /\ call.versions.prerelease_tags = 0

----------------------------------------------------------------------------
(* Two processes in update_lockfile at once (lockfile.rs).  Each reads the *)
(* lockfile into memory, changes its entry there and writes the file       *)
(* back; no lock is taken, so the reads and the writes of the two          *)
(* processes interleave.  The state of the processes is in call.           *)

\* the first half of update_lockfile: the file that will be written and the table read
\* from it (the local lockfile when the pointer is set)
ReadLockfile(d) ==
    IF d.lockfile.loaded_lockfile # NoPath
    THEN [lockfile_path |-> d.lockfile.loaded_lockfile,
          versions |-> d.locals[d.lockfile.loaded_lockfile]]
    ELSE [lockfile_path |-> NoPath, versions |-> d.lockfile.versions]

\* a write that changes the entry in the table the file holds when it is written
WriteLockfile_on_current(d, l, name, version) ==
    IF l.lockfile_path # NoPath
    THEN [d EXCEPT !.locals[l.lockfile_path][name] = version]
    ELSE [d EXCEPT !.lockfile.versions[name] = version]

\* the second half of update_lockfile: the entry is changed in the table read, l, and the
\* table is written over the file
WriteLockfile(d, l, name, version) ==
    IF l.lockfile_path # NoPath
    THEN [d EXCEPT !.locals[l.lockfile_path] = [l.versions EXCEPT ![name] = version]]
    ELSE [d EXCEPT !.lockfile = [versions |-> [l.versions EXCEPT ![name] = version],
                                 loaded_lockfile |-> NoPath]]

\* process 1 updates x and process 2 updates y
Procs == {1, 2}
AppOf(i) == IF i = 1 THEN "x" ELSE "y"

NoRead == [lockfile_path |-> NoPath, versions |-> NoVersions]

\* the lockfile is empty, or records x at Old, or points to a local lockfile
InitRace ==
    /\ call = [op |-> "update_lockfile",
               proc |-> [i \in Procs |-> [at |-> "start", version |-> None, read |-> NoRead]],
               wrote |-> <<>>]
    /\ cache = <<>>
    /\ \E d \in {FreshDiskValue, DiskWithOld,
                  [DiskWithOld EXCEPT !.lockfile.loaded_lockfile = "/p/cyrene.toml"]} : DiskIs(d)
    /\ NoTransaction

\* process i enters update_lockfile(AppOf(i), Some(version)) and reads the lockfile
Read(i, version) ==
    /\ call.op = "update_lockfile" /\ call.proc[i].at = "start"
    /\ call' = [call EXCEPT !.proc[i] = [at |-> "read", version |-> version,
                                         read |-> ReadLockfile(Disk)]]
    /\ UNCHANGED <<cache, diskvars, txvars>>

\* process i writes the lockfile and returns
Write(i) ==
    /\ call.op = "update_lockfile" /\ call.proc[i].at = "read"
    /\ DiskBecomes(WriteLockfile(Disk, call.proc[i].read, AppOf(i), call.proc[i].version))
    /\ call' = [call EXCEPT !.proc[i].at = "done", !.wrote = Append(@, i)]
    /\ UNCHANGED <<cache, txvars>>

NextRace ==
    \/ \E i \in Procs, version \in InstVersions : Read(i, version)
    \/ \E i \in Procs : Write(i)

SpecRace == InitRace /\ [][NextRace]_vars

\* both processes have returned
BothDone == call.op = "update_lockfile" /\ \A i \in Procs : call.proc[i].at = "done"

\* C30: when both processes have returned, the lockfile in use holds the table that the
\* process that wrote last had read, with the entry of that process alone changed: what
\* the other process wrote after that read is lost.
C30_LastWriteWins ==
    BothDone =>
        LET last == call.proc[call.wrote[2]]
        IN  ReadLockfile(Disk).versions =
                [last.read.versions EXCEPT ![AppOf(call.wrote[2])] = last.version]

\* both processes have returned and the lockfile holds the update of one of them only
C30_Witness ==
    /\ BothDone
    /\ \E i \in Procs :
           /\ ReadLockfile(Disk).versions[AppOf(i)] = call.proc[i].version
           /\ ReadLockfile(Disk).versions[AppOf(3 - i)] # call.proc[3 - i].version

----------------------------------------------------------------------------
(* What a failed install leaves (manager.rs, install_specific_version).    *)

\* C31: when the install command stopped at the install step of (a, v) that failed, the
\* version is not reported as installed: package_exists(a, v) is false, so that the
\* install command given again does not skip it.
C31_FailedInstallNotInstalled ==
    \A a \in Apps, v \in InstVersions :
        (call.op = "install" /\ InstallFailed(a, v) /\ log[Len(log)].phase = "install") =>
            ~package_exists(Disk, a, v)


----------------------------------------------------------------------------
(* The uninstall command (main.rs, Commands::Uninstall).                   *)

\* the versions of application a that were installed when the command began, other than v
Remaining(a, v) == {w \in InstVersions : w # v /\ package_exists(before, a, w)}

\* the uninstall command was given for the version that the lockfile recorded for the
\* application, while another version of it was installed
UninstalledLinkedVersion ==
    /\ call.op = "uninstall"
    /\ pc.at = "executed"
    /\ added[1].type = "Remove"
    /\ find_installed_version_from_lockfile(before, call.app) = added[1].version
    /\ Remaining(call.app, added[1].version) # {}

\* C32: uninstalling the linked version of an application while another version of it
\* stays installed succeeds; afterwards the directory of the removed version is gone, the
\* lockfile records the highest remaining version, and the links of the application
\* point into that version.
C32_UninstallLinkedVersion ==
    UninstalledLinkedVersion =>
        LET a == call.app
            v == added[1].version
            next == Highest(Remaining(a, v))
        IN  /\ pc.res.ok
            /\ ~package_exists(Disk, a, v)
            /\ find_installed_version_from_lockfile(Disk, a) = next
            /\ LinksPointTo(a, next)


\* C33: the uninstall command given without a version, for an application that is
\* installed and has a lockfile entry, succeeds and leaves no directory of the
\* application, no link for its binaries and no lockfile entry.
C33_UninstallWholeApp ==
    (/\ call.op = "uninstall"
     /\ pc.at = "executed"
     /\ added = <<RemoveAll(call.app), Unlink(call.app), LockfileUpdate(call.app, None)>>
     /\ before.root[call.app]
     /\ find_installed_version_from_lockfile(before, call.app) # None) =>
        /\ pc.res.ok
        /\ ~root[call.app]
        /\ \A v \in InstVersions : ~package_exists(Disk, call.app, v)
        /\ \A b \in BinNames(call.app) : links[b] = NoLink
        /\ find_installed_version_from_lockfile(Disk, call.app) = None


----------------------------------------------------------------------------
(* The upgrade command for several applications (main.rs, app_upgrade).    *)
(* One TransactionExecutor is created before the loop over the upgrades;   *)
(* each iteration adds the four commands of its application and calls      *)
(* execute, which iterates the queues and leaves them as they are.         *)

\* AppVersionUpgradeAction
UpgradeAction(name, old_version, new_version) ==
    [name |-> name, old_version |-> old_version, new_version |-> new_version]

\* what the first loop of app_upgrade returns: a result, the cache and the upgrades needed
Selected(r, c, app_actions) == [res |-> r, cache |-> c, app_actions |-> app_actions]

\* the body of the first loop of app_upgrade with "*" as the range whatever the setting
UpgradeActionOf_latest(c, name, old_version, upgrade_latest, p) ==
    LET r == get_latest_major_release(c, name, Star, p)
    IN  IF old_version = None THEN Selected(Err("AppNotInstalled"), c, <<>>)
        ELSE IF ~r.res.ok THEN Selected(r.res, r.cache, <<>>)
        ELSE IF r.res.val = None THEN Selected(Err("AppVersionNotFound"), r.cache, <<>>)
        ELSE Selected(Ok(r.res.val), r.cache,
                      IF old_version = r.res.val THEN <<>>
                      ELSE <<UpgradeAction(name, old_version, r.res.val)>>)

\* the body of the first loop of app_upgrade for an application whose old version is
\* old_version: the new version, and the upgrade when one is needed
UpgradeActionOf(c, name, old_version, upgrade_latest, p) ==
    LET r == get_latest_major_release(c, name,
                                      IF upgrade_latest THEN Star ELSE Text(old_version), p)
    IN  IF old_version = None THEN Selected(Err("AppNotInstalled"), c, <<>>)
        ELSE IF ~r.res.ok THEN Selected(r.res, r.cache, <<>>)
        ELSE IF r.res.val = None THEN Selected(Err("AppVersionNotFound"), r.cache, <<>>)
        ELSE Selected(Ok(r.res.val), r.cache,
                      IF old_version = r.res.val THEN <<>>
                      ELSE <<UpgradeAction(name, old_version, r.res.val)>>)

\* the first loop of app_upgrade, for applications given without a version: the upgrades
\* that are needed, or the first error
RECURSIVE UpgradeActions(_, _, _, _, _, _)
UpgradeActions(d, c, apps, upgrade_latest, p, app_actions) ==
    IF apps = <<>> THEN Selected(Ok(None), c, app_actions)
    ELSE LET s == UpgradeActionOf(c, Head(apps),
                                  find_installed_version_from_lockfile(d, Head(apps)),
                                  upgrade_latest, p)
         IN  IF ~s.res.ok THEN s
             ELSE UpgradeActions(d, s.cache, Tail(apps), upgrade_latest, p,
                                 app_actions \o s.app_actions)

\* the second loop of app_upgrade from upgrade i on: t is the executor, cmds the commands
\* added to it so far and ran the steps that its executes have run
RECURSIVE UpgradeLoop(_, _, _, _, _, _, _)
UpgradeLoop(d, t, app_actions, i, env, cmds, ran) ==
    IF i > Len(app_actions) THEN [res |-> Ok(None), d |-> d, t |-> t, added |-> cmds, log |-> ran]
    ELSE LET a == app_actions[i]
             more == UpgradeCommands(d, a.name, a.old_version, a.new_version)
             transactions == AddAll(t, more)
             r == execute(d, transactions, env)
         IN  IF find_installed_version_from_lockfile(d, a.name) = None
             THEN [res |-> Err("LockfileAppVersion"), d |-> d, t |-> t, added |-> cmds,
                   log |-> ran]
             ELSE IF ~r.res.ok
                  THEN [res |-> r.res, d |-> r.d, t |-> transactions, added |-> cmds \o more,
                        log |-> ran \o r.log]
             ELSE UpgradeLoop(r.d, transactions, app_actions, i + 1, env, cmds \o more,
                              ran \o r.log)

\* the lists of applications on the command line of upgrade
UpgradeLists == {<<"x">>, <<"y">>, <<"x", "y">>, <<"y", "x">>}

\* the install commands that prepare an upgrade
OldInstallArgs == {<<"x", Text(Old)>>, <<"y", Text(Old)>>}

\* app_upgrade
UpgradeApps(apps, upgrade_latest, p, env) ==
    \E s \in {UpgradeActions(Disk, cache, apps, upgrade_latest, p, <<>>)} :
        LET cmd == [op |-> "upgrade", apps |-> apps]
        IN  IF ~s.res.ok THEN Returns(cmd, s.cache, s.res)
            ELSE IF s.app_actions = <<>> THEN Returns(cmd, s.cache, Ok(None))
            ELSE \E r \in {UpgradeLoop(Disk, NoTx, s.app_actions, 1, env, <<>>, <<>>)} :
                    /\ call' = cmd
                    /\ cache' = s.cache
                    /\ added' = r.added
                    /\ tx' = r.t
                    /\ log' = r.log
                    /\ pc' = [at |-> "executed", res |-> r.res, clean |-> pc.clean /\ r.res.ok]
                    /\ before' = Disk
                    /\ DiskBecomes(r.d)

NextUpgrade ==
    \/ \E a \in OldInstallArgs : InstallHandler(a[1], a[2])
    \/ \E apps \in UpgradeLists, upgrade_latest \in BOOLEAN, p \in HandlerAnswers,
          fail \in 0..MaxFailAt, order \in BinOrders :
            UpgradeApps(apps, upgrade_latest, p, Env(fail, order))

SpecUpgrade == Init /\ [][NextUpgrade]_vars

\* the number of steps of the log that ran cmd in phase
TimesRun(phase, cmd) ==
    Cardinality({j \in 1..Len(log) : log[j].phase = phase /\ log[j].cmd = cmd})

\* the number of times cmd was added to the executor
TimesAdded(cmd) == Cardinality({k \in 1..Len(added) : added[k] = cmd})

\* C34: in one upgrade command, a command added to the executor is run by each phase at
\* most as many times as it was added, and exactly that many times in the phases it
\* belongs to when the upgrade command succeeds.
C34_ExecutedOnce ==
    (call.op = "upgrade" /\ pc.at = "executed") =>
        /\ \A i \in 1..Len(log) : TimesRun(log[i].phase, log[i].cmd) <= TimesAdded(log[i].cmd)
        /\ pc.res.ok =>
            \A k \in 1..Len(added), ph \in Phases :
                InPhase(ph, added[k]) => TimesRun(ph, added[k]) = TimesAdded(added[k])


----------------------------------------------------------------------------
(* Whose links Unlink removes (manager.rs, unlink_plugin_binaries).        *)

\* C35: the unlink command of an application leaves every link that points into the
\* installation of another application as it was.
C35_UnlinkOwnOnly ==
    (call.op = "unlink" /\ pc.at = "executed") =>
        \A b \in Bins :
            (before.links[b] # NoLink /\ before.links[b].app # call.app) =>
                links[b] = before.links[b]


----------------------------------------------------------------------------
(* The two readers of the active lockfile (lockfile.rs).                   *)

\* C36: in every state of the lockfiles, for every application, the version that
\* find_installed_version_from_lockfile returns is the entry of the application in the
\* map that load_version_map_from_current_lockfile returns (None when it has none).
C36_ReadersAgree ==
    \A a \in Apps :
        find_installed_version_from_lockfile(Disk, a)
            = load_version_map_from_current_lockfile(Disk)[a]


----------------------------------------------------------------------------
(* The redirection pointer and load_lockfile (manager.rs, lockfile.rs).    *)

\* C37: when load_lockfile returns the lockfile-app-version error, the redirection
\* pointer of the default lockfile is as before the call.
C37_FailedLoadKeepsPointer ==
    (call.op = "load_lockfile" /\ call.res = Err("LockfileAppVersionError")) =>
        lockfile.loaded_lockfile = before.lockfile.loaded_lockfile


(* The load command (main.rs, Commands::Load).  The working directory is   *)
(* /p, so that the default file name cyrene.toml is the file               *)
(* /p/cyrene.toml.                                                         *)

\* PathBuf::from("cyrene.toml"), the file loaded when the command names none
DefaultName == "cyrene.toml"

\* fs::canonicalize of a path that exists
canonicalize(path) == IF path = DefaultName THEN "/p/cyrene.toml" ELSE path

\* fs::exists(&lockfile_path)
LockfileExists(path) == canonicalize(path) \in Paths

\* the command lines of load: --default, a path, or nothing
LoadArgs ==
    {[default |-> TRUE, lockfile |-> NoPath], [default |-> FALSE, lockfile |-> NoPath],
     [default |-> FALSE, lockfile |-> "/p/cyrene.toml"],
     [default |-> FALSE, lockfile |-> MissingPath]}

\* Commands::Load: both branches call load_lockfile(None)
LoadHandler(app_load_opts, p, plugin_ok, order) ==
    LET lockfile_path == IF app_load_opts.lockfile # NoPath THEN app_load_opts.lockfile
                         ELSE DefaultName
        cmd == [op |-> "load", default |-> app_load_opts.default, path |-> lockfile_path,
                upstream |-> [a \in Apps |-> UpstreamList(cache, a, p[a])]]
    IN  /\ IF ~app_load_opts.default /\ ~LockfileExists(lockfile_path)
           THEN /\ call' = [cmd EXCEPT !.upstream = [a \in Apps |-> <<>>]]
                       @@ [res |-> Err("LockfileNotFoundError")]
                /\ UNCHANGED <<cache, diskvars>>
           ELSE \E r \in {load_lockfile(Disk, cache, NoPath, p, plugin_ok, order)} :
                    /\ DiskBecomes(r.d)
                    /\ cache' = r.cache
                    /\ call' = cmd @@ [res |-> r.res]
        /\ before' = Disk
        /\ UNCHANGED <<added, tx, pc, log>>

NextLoadCommand ==
    \E app_load_opts \in LoadArgs, p \in [Apps -> LoadAnswers],
       plugin_ok \in [Apps -> BOOLEAN], order \in BinOrders :
        LoadHandler(app_load_opts, p, plugin_ok, order)

SpecLoadCommand == InitLoad /\ [][NextLoadCommand]_vars

\* C38: after a load command that succeeded, the redirection pointer of the default
\* lockfile is absent when the command was given --default, and is otherwise the
\* canonical path of the file the command named (cyrene.toml when it named none).
C38_PointerAfterLoad ==
    (call.op = "load" /\ call.res.ok) =>
        lockfile.loaded_lockfile = IF call.default THEN NoPath ELSE canonicalize(call.path)


----------------------------------------------------------------------------
(* The version that the upgrade command selects (main.rs, app_upgrade;     *)
(* manager.rs, get_latest_major_release).  The old version is the one the  *)
(* lockfile records, any version string; the list of the application is    *)
(* the cached one, or the answer of the plugin when none is cached.        *)

\* the old versions of the application that is upgraded
OldVersions == {V(0, 0, 1), V(0, 1, 1), V(1, 1, 0), Tok("nightly")}

\* the versions that the plugin lists
UpstreamVersions ==
    {V(0, 0, 1), V(0, 0, 2), V(0, 1, 0), V(0, 1, 1), V(0, 1, 2), V(0, 2, 0), V(1, 0, 0),
     V(1, 1, 0), V(1, 2, 0), V(2, 0, 0), Tok("nightly")}

UpstreamAnswers == {Ok(l) : l \in Seqs(UpstreamVersions, MaxPluginLen)} \cup {Err("VersionFetch")}

\* the plugin is asked only when the cached list is empty
UpstreamAnswersFor(name) ==
    IF get_versions(cache, name) = <<>> THEN UpstreamAnswers ELSE {Ok(<<>>)}

InitSelect ==
    /\ call = NoCall
    /\ cache = <<>>
    /\ FreshDisk
    /\ NoTransaction

\* one iteration of the first loop of app_upgrade
SelectUpgrade(name, old_version, upgrade_latest) ==
    /\ \E p \in UpstreamAnswersFor(name) :
        \E s \in {UpgradeActionOf(cache, name, old_version, upgrade_latest, p)} :
            /\ cache' = s.cache
            /\ call' = [op |-> "app_upgrade", app |-> name, old_version |-> old_version,
                        upgrade_latest |-> upgrade_latest, res |-> s.res,
                        app_actions |-> s.app_actions]
    /\ UNCHANGED <<diskvars, txvars>>

NextSelect ==
    \E name \in ResolvedApps, old_version \in OldVersions, upgrade_latest \in BOOLEAN :
        SelectUpgrade(name, old_version, upgrade_latest)

SpecSelect == InitSelect /\ [][NextSelect]_vars

\* new is major-compatible with old: the same major.minor when the major of old is 0,
\* the same major otherwise
MajorCompatible(old, new) ==
    IF old.major = 0 THEN new.major = 0 /\ new.minor = old.minor
    ELSE new.major = old.major

\* C39: for an application upgraded without the upgrade_latest setting, the new version
\* selected is a semantic version not lower than the old version and major-compatible
\* with it, and an upgrade is queued exactly when the two differ.
C39_UpgradeSelection ==
    (call.op = "app_upgrade" /\ ~call.upgrade_latest /\ call.res.ok) =>
        LET old == call.old_version
            new == call.res.val
        IN  /\ IsSemver(old) /\ IsSemver(new)
            /\ ~VersionLess(new, old)
            /\ MajorCompatible(old, new)
            /\ call.app_actions = IF new = old THEN <<>>
                                  ELSE <<UpgradeAction(call.app, old, new)>>

\* an upgrade was selected to a higher version although a higher incompatible one is
\* first in the list
C39_Witness ==
    /\ call.op = "app_upgrade" /\ ~call.upgrade_latest /\ call.res.ok
    /\ call.old_version = V(0, 1, 1)
    /\ call.res.val = V(0, 1, 2)
    /\ get_versions(cache, call.app) = <<V(0, 2, 0), V(0, 1, 2)>>
    /\ call.app_actions # <<>>


----------------------------------------------------------------------------
(* is_major_version_equal as a relation on version strings (util.rs).      *)

\* C40: is_major_version_equal is an equivalence relation on version strings: it holds
\* of a string and itself, it gives the same answer when old and new are exchanged, and
\* when it holds of (a, b) and of (b, c) it holds of (a, c); of a pair in which a string
\* is not a semantic version it holds exactly when the two strings are equal.
C40_MajorEquivalence ==
    (call.op = "is_major_version_equal" /\ call.done) =>
        LET a == call.old_version
            b == call.new_version
        IN  /\ is_major_version_equal(a, a)
            /\ call.out = is_major_version_equal(b, a)
            /\ \A c \in VersionStrings :
                (call.out /\ is_major_version_equal(b, c)) => is_major_version_equal(a, c)
            /\ (~IsSemver(a) \/ ~IsSemver(b)) => (call.out <=> a = b)

\* two versions of major 1 that differ were compared and found equal
C40_Witness ==
    /\ call.op = "is_major_version_equal" /\ call.done
    /\ call.old_version = V(1, 1, 0)
    /\ call.new_version = V(1, 1, 1)
    /\ call.out

====
